---- MODULE Spec2Model ----
(***************************************************************************)
(* Honeycomb: the ABX (Android Binary XML) decoder, the buffering seek     *)
(* adapter it reads through, and the offset patcher of main.rs.            *)
(*                                                                         *)
(* Bytes are the integers 0..255, a Rust String or Vec<u8> is a sequence   *)
(* of bytes, a stream offset is 0-based as in the source (sequence index   *)
(* i+1 holds the byte at offset i).  A Rust Result is a record with a      *)
(* field ok; an AbxError is a record [kind, what, n].                      *)
(***************************************************************************)
EXTENDS Integers, Sequences, FiniteSets, TLC

VARIABLES
    src,      \* seek adapter: every byte the wrapped source will deliver
    rd,       \* seek adapter: the SeekableReader under test
    r_op,     \* seek adapter: the last call made on rd and what it returned
    r_prev,   \* seek adapter: the call made before r_op
    d_file,   \* decoder: the bytes of the source being decoded
    d_new,    \* decoder: whether BinaryXmlDeserializer::new was called, and its Result
    dec,      \* decoder: the BinaryXmlDeserializer
    i_inp,    \* interned strings: the FastDataInput being read
    i_calls,  \* interned strings: the calls of read_interned_utf made, in order
    p_path,   \* patcher: the bytes of the file at profile_path
    p_name,   \* patcher: policy_name, the target of the invocation
    p_pc,     \* patcher: where main is: "start", "loop", "print", "done", "panicked"
    p_de,     \* patcher: deserializer, after the decode of line 57
    p_names,  \* patcher: policy_names
    p_list,   \* patcher: cleaned_policy_list
    p_i,      \* patcher: the element of cleaned_policy_list the for loop is at, from 1
    p_create, \* patcher: should_create_policy
    p_out,    \* patcher: the file at out, [exists, bytes]
    p_same,   \* patcher: out names the file that profile_path names
    p_ops,    \* patcher: the removals and insertions made, in order, with what each wrote
    p_xml,    \* patcher: the text get_readable_xml returned
    c_args,   \* abx2xml: the ArgMatches, [in_place, input, output]
    c_before, \* abx2xml: the files and streams when the command starts
    c_world,  \* abx2xml: the files and streams, and the operations made on them
    c_pc,     \* abx2xml: "start", or "done" once run_with_matches has returned
    c_result  \* abx2xml: the Result of run_with_matches

reader_vars == <<src, rd, r_op, r_prev>>

decode_vars == <<d_file, d_new, dec>>

intern_vars == <<i_inp, i_calls>>

patch_vars == <<p_path, p_name, p_pc, p_de, p_names, p_list, p_i, p_create, p_out, p_same,
               p_ops, p_xml>>

cli_vars == <<c_args, c_before, c_world, c_pc, c_result>>

vars == <<src, rd, r_op, r_prev, d_file, d_new, dec, i_inp, i_calls,
          p_path, p_name, p_pc, p_de, p_names, p_list, p_i, p_create, p_out, p_same,
          p_ops, p_xml,
          c_args, c_before, c_world, c_pc, c_result>>

Min(a, b) == IF a < b THEN a ELSE b

Max(a, b) == IF a > b THEN a ELSE b

\* s[from .. to) by 0-based offsets, clipped to the sequence
Slice(s, from, to) == SubSeq(s, from + 1, Min(to, Len(s)))

IsPrefix(a, b) == Len(a) <= Len(b) /\ SubSeq(b, 1, Len(a)) = a

RECURSIVE Flatten(_)
Flatten(ss) == IF ss = <<>> THEN <<>> ELSE Head(ss) \o Flatten(Tail(ss))

\* Body applied to the value of an expression that is evaluated once: the
\* let of a result that the lines after it read several times
Bind(value, Body(_)) == CHOOSE result \in {Body(v) : v \in {value}} : TRUE

(***************************************************************************)
(* seekable_reader.rs                                                      *)
(***************************************************************************)

\* vec![0u8; 8192]: the most one call of inner.read can deliver
TEMP_BUF_LEN == 8192

\* The wrapped forward-only source: the chunks it has still to deliver, in
\* order; when none is left its read returns Ok(0).  reads counts the reads
\* made of it, reads_after_eof those made after it has returned Ok(0) once.
InnerNew(chunks) ==
    [chunks |-> chunks, eof_seen |-> FALSE, reads |-> 0, reads_after_eof |-> 0]

\* self.inner.read(&mut temp_buf): the bytes delivered and the source after
InnerRead(inner) ==
    IF inner.chunks = <<>>
    THEN [data |-> <<>>,
          inner |-> [inner EXCEPT !.eof_seen = TRUE,
                                  !.reads = @ + 1,
                                  !.reads_after_eof =
                                      IF inner.eof_seen THEN @ + 1 ELSE @]]
    ELSE LET c == Head(inner.chunks)
             n == Min(Len(c), TEMP_BUF_LEN)
         IN [data |-> SubSeq(c, 1, n),
             inner |-> [inner EXCEPT !.reads = @ + 1,
                                     !.chunks =
                            IF n = Len(c) THEN Tail(inner.chunks)
                            ELSE <<SubSeq(c, n + 1, Len(c))>> \o Tail(inner.chunks)]]

SeekableReaderNew(inner) ==
    [inner |-> inner, buffer |-> <<>>, position |-> 0, end_reached |-> FALSE]

\* (a slip: the chunk assigned to the buffer, not appended)
PullChunk_Replace(r) ==
    Bind(InnerRead(r.inner), LAMBDA got :
        IF got.data = <<>>
        THEN [r EXCEPT !.inner = got.inner, !.end_reached = TRUE]
        ELSE [r EXCEPT !.inner = got.inner, !.buffer = got.data])

\* One pass of the body shared by the three fill loops: read a chunk, mark
\* the end on Ok(0), append it otherwise.
PullChunk(r) ==
    Bind(InnerRead(r.inner), LAMBDA got :
        IF got.data = <<>>
        THEN [r EXCEPT !.inner = got.inner, !.end_reached = TRUE]
        ELSE [r EXCEPT !.inner = got.inner, !.buffer = @ \o got.data])

\* (a slip: the source never asked, what is buffered is served)
FillForRead_Buffered(r, k) == r

\* (a slip: an if where the while is, so that one chunk at most is pulled)
FillForRead_Once(r, k) ==
    IF r.position + k > Len(r.buffer) /\ ~r.end_reached THEN PullChunk(r) ELSE r

\* while self.position + buf.len() > self.buffer.len() && !self.end_reached
RECURSIVE FillForRead(_, _)
FillForRead(r, k) ==
    IF r.position + k > Len(r.buffer) /\ ~r.end_reached
    THEN Bind(PullChunk(r), LAMBDA pulled : FillForRead(pulled, k))
    ELSE r

\* Read::read for a buffer of k bytes: the reader after, and the bytes copied
SeekableRead(r, k) ==
    Bind(FillForRead(r, k), LAMBDA f :
        LET available == Max(Len(f.buffer) - f.position, 0)
            to_copy == Min(k, available)
        IN [rd |-> [f EXCEPT !.position = @ + to_copy],
            data |-> SubSeq(f.buffer, f.position + 1, f.position + to_copy)])

\* (a slip: an if where the while is)
FillForSeek_Once(r, pos) ==
    IF pos > Len(r.buffer) /\ ~r.end_reached THEN PullChunk(r) ELSE r

\* while pos > self.buffer.len() && !self.end_reached
RECURSIVE FillForSeek(_, _)
FillForSeek(r, pos) ==
    IF pos > Len(r.buffer) /\ ~r.end_reached
    THEN Bind(PullChunk(r), LAMBDA pulled : FillForSeek(pulled, pos))
    ELSE r

\* (a slip: the position set without the min)
SeekStart_Unclamped(r, pos) ==
    Bind(FillForSeek(r, pos), LAMBDA f : [rd |-> [f EXCEPT !.position = pos], ret |-> pos])

\* seek(SeekFrom::Start(pos)): the reader after, and the offset returned
SeekStart(r, pos) ==
    Bind(FillForSeek(r, pos), LAMBDA f :
        LET p == Min(pos, Len(f.buffer))
        IN [rd |-> [f EXCEPT !.position = p], ret |-> p])

\* seek(SeekFrom::Current(offset)): saturating at 0, then seek(Start)
SeekCurrent(r, offset) ==
    LET new_pos == IF offset >= 0 THEN r.position + offset
                   ELSE Max(r.position - (-offset), 0)
    IN SeekStart(r, new_pos)

\* while !self.end_reached
RECURSIVE FillToEnd(_)
FillToEnd(r) ==
    IF ~r.end_reached THEN Bind(PullChunk(r), LAMBDA pulled : FillToEnd(pulled)) ELSE r

\* seek(SeekFrom::End(_)): the offset argument is ignored
SeekEnd(r) ==
    Bind(FillToEnd(r), LAMBDA f :
        [rd |-> [f EXCEPT !.position = Len(f.buffer)], ret |-> Len(f.buffer)])

StreamPosition(r) == r.position

\* Read::read_exact (the std default): read until the buffer is full; a
\* read of 0 bytes before that is UnexpectedEof.  The bytes already read
\* stay consumed.
RECURSIVE ReadExactFrom(_, _, _)
ReadExactFrom(r, n, acc) ==
    IF n = 0 THEN [ok |-> TRUE, rd |-> r, data |-> acc]
    ELSE Bind(SeekableRead(r, n), LAMBDA got :
             IF got.data = <<>>
             THEN [ok |-> FALSE, rd |-> got.rd, data |-> acc]
             ELSE ReadExactFrom(got.rd, n - Len(got.data), acc \o got.data))

ReadExact(r, n) == ReadExactFrom(r, n, <<>>)

(***************************************************************************)
(* lib.rs: protocol constants, errors, Policy                              *)
(***************************************************************************)

PROTOCOL_MAGIC_VERSION_0 == <<65, 66, 88, 0>>

START_DOCUMENT == 0

END_DOCUMENT == 1

START_TAG == 2

END_TAG == 3

TEXT == 4

CDSECT == 5

ENTITY_REF == 6

IGNORABLE_WHITESPACE == 7

PROCESSING_INSTRUCTION == 8

COMMENT == 9

DOCDECL == 10

ATTRIBUTE == 15

TYPE_STRING == 32

TYPE_STRING_INTERNED == 48

TYPE_BYTES_HEX == 64

TYPE_BYTES_BASE64 == 80

TYPE_INT == 96

TYPE_INT_HEX == 112

TYPE_LONG == 128

TYPE_LONG_HEX == 144

TYPE_FLOAT == 160

TYPE_DOUBLE == 176

TYPE_BOOLEAN_TRUE == 192

TYPE_BOOLEAN_FALSE == 208

NoError == [kind |-> "none", what |-> "", n |-> 0]

ReadError(what) == [kind |-> "ReadError", what |-> what, n |-> 0]

InvalidMagicHeader == [kind |-> "InvalidMagicHeader", what |-> "", n |-> 0]

InvalidInternedStringIndex(index) ==
    [kind |-> "InvalidInternedStringIndex", what |-> "", n |-> index]

\* (a slip: the nibble shifted down to 0..15)
UnknownAttributeType_Shifted(type_info) ==
    [kind |-> "UnknownAttributeType", what |-> "", n |-> type_info \div 16]

UnknownAttributeType(type_info) ==
    [kind |-> "UnknownAttributeType", what |-> "", n |-> type_info]

ParseError(what) == [kind |-> "ParseError", what |-> what, n |-> 0]

\* Io(#[from] io::Error)
Io(what) == [kind |-> "Io", what |-> what, n |-> 0]

\* a panic of the running program: no AbxError, the thread unwinds
Panic(what) == [kind |-> "Panic", what |-> what, n |-> 0]

Policy(name, start_offset, end_offset) ==
    [name |-> name, start_offset |-> start_offset, end_offset |-> end_offset]

(***************************************************************************)
(* Text: what the format strings of binary_xml.rs write                    *)
(***************************************************************************)

\* "<?xml version=\"1.0\" encoding=\"UTF-8\"?>"
XML_DECL == <<60, 63, 120, 109, 108, 32, 118, 101, 114, 115, 105, 111, 110, 61, 34,
              49, 46, 48, 34, 32, 101, 110, 99, 111, 100, 105, 110, 103, 61, 34,
              85, 84, 70, 45, 56, 34, 63, 62>>

\* "restrictions_user"
RESTRICTIONS_USER == <<114, 101, 115, 116, 114, 105, 99, 116, 105, 111, 110, 115,
                       95, 117, 115, 101, 114>>

\* "restrictions"
RESTRICTIONS == <<114, 101, 115, 116, 114, 105, 99, 116, 105, 111, 110, 115>>

\* s.replace(c, with): every byte c of s replaced by the bytes with
RECURSIVE Replace(_, _, _)
Replace(s, c, with) ==
    IF s = <<>> THEN <<>>
    ELSE (IF Head(s) = c THEN with ELSE <<Head(s)>>) \o Replace(Tail(s), c, with)

\* & first, so that the & of the entities written later is not escaped again
encode_xml_entities(text) ==
    Bind(Replace(text, 38, <<38, 97, 109, 112, 59>>), LAMBDA amp :         \* '&'  -> "&amp;"
    Bind(Replace(amp, 60, <<38, 108, 116, 59>>), LAMBDA lt :               \* '<'  -> "&lt;"
    Bind(Replace(lt, 62, <<38, 103, 116, 59>>), LAMBDA gt :                \* '>'  -> "&gt;"
    Bind(Replace(gt, 34, <<38, 113, 117, 111, 116, 59>>), LAMBDA quot :    \* '"'  -> "&quot;"
    Replace(quot, 39, <<38, 97, 112, 111, 115, 59>>)))))                   \* '\'' -> "&apos;"

\* '0'..'9', 'A'..'F'
HexDigitUpper(v) == IF v < 10 THEN 48 + v ELSE 55 + v

DecDigit(v) == 48 + v

\* hex::encode_upper: two digits a byte
RECURSIVE HexEncodeUpper(_)
HexEncodeUpper(bytes) ==
    IF bytes = <<>> THEN <<>>
    ELSE <<HexDigitUpper(Head(bytes) \div 16), HexDigitUpper(Head(bytes) % 16)>>
         \o HexEncodeUpper(Tail(bytes))

RECURSIVE StripLeading(_, _)
StripLeading(s, c) ==
    IF Len(s) > 1 /\ Head(s) = c THEN StripLeading(Tail(s), c) ELSE s

\* (a slip: every digit of the width written, as {:08X} would)
UpperHexOfBytes_Padded(bytes) == HexEncodeUpper(bytes)

\* {:X} of an i32 or an i64 given by its big-endian bytes: the digits of the
\* two's complement bit pattern, without leading zeros
UpperHexOfBytes(bytes) ==
    Bind(HexEncodeUpper(bytes), LAMBDA digits : StripLeading(digits, 48))

\* one step of the long division by 10 of a big-endian base-256 number
RECURSIVE DivMod10(_, _, _)
DivMod10(bytes, carry, quot) ==
    IF bytes = <<>> THEN [q |-> quot, r |-> carry]
    ELSE LET cur == carry * 256 + Head(bytes)
         IN DivMod10(Tail(bytes), cur % 10, Append(quot, cur \div 10))

IsZero(bytes) == \A i \in 1..Len(bytes) : bytes[i] = 0

\* the decimal digits of an unsigned big-endian number
RECURSIVE DecimalOfMagnitude(_)
DecimalOfMagnitude(bytes) ==
    Bind(DivMod10(bytes, 0, <<>>), LAMBDA dm :
        IF IsZero(dm.q) THEN <<DecDigit(dm.r)>>
        ELSE Append(DecimalOfMagnitude(dm.q), DecDigit(dm.r)))

\* bytes + 1, modulo 256^Len(bytes)
RECURSIVE Increment(_)
Increment(bytes) ==
    IF bytes = <<>> THEN <<>>
    ELSE LET n == Len(bytes)
         IN IF bytes[n] = 255 THEN Append(Increment(SubSeq(bytes, 1, n - 1)), 0)
            ELSE [bytes EXCEPT ![n] = @ + 1]

\* the magnitude of a negative two's complement number: invert, add one
Negate(bytes) ==
    Bind([i \in 1..Len(bytes) |-> 255 - bytes[i]], LAMBDA inverted : Increment(inverted))

\* {} of an i32 or an i64 given by its big-endian bytes: decimal, with a '-'
\* when the sign bit is set
DisplaySigned(bytes) ==
    IF bytes[1] >= 128
    THEN Bind(Negate(bytes), LAMBDA magnitude : <<45>> \o DecimalOfMagnitude(magnitude))
    ELSE DecimalOfMagnitude(bytes)

\* the base64 alphabet: A-Z a-z 0-9 + /
Base64Char(v) ==
    IF v < 26 THEN 65 + v
    ELSE IF v < 52 THEN 97 + (v - 26)
    ELSE IF v < 62 THEN 48 + (v - 52)
    ELSE IF v = 62 THEN 43 ELSE 47

\* base64::engine::general_purpose::STANDARD.encode: with '=' padding
RECURSIVE Base64Encode(_)
Base64Encode(bytes) ==
    IF bytes = <<>> THEN <<>>
    ELSE IF Len(bytes) = 1
    THEN <<Base64Char(bytes[1] \div 4), Base64Char((bytes[1] % 4) * 16), 61, 61>>
    ELSE IF Len(bytes) = 2
    THEN <<Base64Char(bytes[1] \div 4),
           Base64Char((bytes[1] % 4) * 16 + bytes[2] \div 16),
           Base64Char((bytes[2] % 16) * 4), 61>>
    ELSE <<Base64Char(bytes[1] \div 4),
           Base64Char((bytes[1] % 4) * 16 + bytes[2] \div 16),
           Base64Char((bytes[2] % 16) * 4 + bytes[3] \div 64),
           Base64Char(bytes[3] % 64)>>
         \o Base64Encode(SubSeq(bytes, 4, Len(bytes)))

\* {} of an f32 or an f64 given by the big-endian bytes of its bits, with
\* exp_bits exponent bits.  Display writes the shortest decimal that reads
\* back as the same float; that search is computed here for the zeros, the
\* infinities, NaN and the powers of two 1, 2, 4, ..., 512 only.  Any other
\* bit pattern gives the one byte '?', which Display never writes alone.
FloatDisplay(bytes, exp_bits) ==
    LET sign == bytes[1] \div 128
        \* the exponent field: the 7 low bits of byte 1 and the high bits of byte 2
        low == exp_bits - 7
        cut == IF low = 1 THEN 128 ELSE 16
        exponent == (bytes[1] % 128) * (256 \div cut) + bytes[2] \div cut
        all_ones == IF low = 1 THEN 255 ELSE 2047
        bias == IF low = 1 THEN 127 ELSE 1023
        mantissa_zero == bytes[2] % cut = 0 /\ IsZero(SubSeq(bytes, 3, Len(bytes)))
        minus == IF sign = 1 THEN <<45>> ELSE <<>>
    IN IF exponent = all_ones
       THEN IF mantissa_zero THEN minus \o <<105, 110, 102>>     \* "inf"
            ELSE <<78, 97, 78>>                                   \* "NaN"
       ELSE IF exponent = 0 /\ mantissa_zero THEN minus \o <<48>>
       ELSE IF mantissa_zero /\ exponent >= bias /\ exponent <= bias + 9
       THEN minus \o DecimalOfMagnitude(<<(2 ^ (exponent - bias)) \div 256,
                                          (2 ^ (exponent - bias)) % 256>>)
       ELSE <<63>>

\* std::str::from_utf8: whether the bytes are well-formed UTF-8
Cont(b) == b >= 128 /\ b <= 191

\* the offset of the first byte of text at or after from that is in S,
\* Len(text) when there is none
NextOf(text, from, S) ==
    Bind({k \in from..(Len(text) - 1) : text[k + 1] \in S}, LAMBDA hits :
        IF hits = {} THEN Len(text)
        ELSE CHOOSE k \in hits : \A m \in hits : k <= m)

\* std::str::from_utf8 accepts the bytes from offset from on
RECURSIVE IsUtf8From(_, _)
IsUtf8From(s, from) ==
    Bind(NextOf(s, from, 128..255), LAMBDA at :
        IF at >= Len(s) THEN TRUE
        ELSE LET b == s[at + 1]
                 n == Len(s) - at
             IN IF b >= 194 /\ b <= 223
                THEN n >= 2 /\ Cont(s[at + 2]) /\ IsUtf8From(s, at + 2)
                ELSE IF b >= 224 /\ b <= 239
                THEN /\ n >= 3
                     /\ s[at + 2] >= (IF b = 224 THEN 160 ELSE 128)
                     /\ s[at + 2] <= (IF b = 237 THEN 159 ELSE 191)
                     /\ Cont(s[at + 3])
                     /\ IsUtf8From(s, at + 3)
                ELSE IF b >= 240 /\ b <= 244
                THEN /\ n >= 4
                     /\ s[at + 2] >= (IF b = 240 THEN 144 ELSE 128)
                     /\ s[at + 2] <= (IF b = 244 THEN 143 ELSE 191)
                     /\ Cont(s[at + 3])
                     /\ Cont(s[at + 4])
                     /\ IsUtf8From(s, at + 4)
                ELSE FALSE)

IsUtf8(s) == IsUtf8From(s, 0)

(***************************************************************************)
(* binary_xml.rs: FastDataInput                                            *)
(*                                                                         *)
(* Every read returns [ok, val, err, inp]: the Result, and the input after *)
(* the call.  An i32, i64, f32 or f64 value is kept as the big-endian      *)
(* bytes read, which is where from_be_bytes and from_bits take it from.    *)
(***************************************************************************)

FastDataInputNew(reader) == [reader |-> reader, interned_strings |-> <<>>]

Ok(inp, val) == [ok |-> TRUE, val |-> val, err |-> NoError, inp |-> inp]

Err(inp, err) == [ok |-> FALSE, val |-> <<>>, err |-> err, inp |-> inp]

\* self.reader.read_exact(&mut buf).map_err(|_| ReadError(what)) for a
\* buffer of n bytes
ReadFixed(inp, n, what) ==
    Bind(ReadExact(inp.reader, n), LAMBDA got :
        IF got.ok THEN Ok([inp EXCEPT !.reader = got.rd], got.data)
        ELSE Err([inp EXCEPT !.reader = got.rd], ReadError(what)))

\* (a slip: the byte looked at and left in the stream)
read_byte_Peek(inp) ==
    Bind(ReadFixed(inp, 1, "byte"), LAMBDA got :
        IF got.ok THEN Ok(inp, got.val[1]) ELSE got)

read_byte(inp) ==
    Bind(ReadFixed(inp, 1, "byte"), LAMBDA got :
        IF got.ok THEN Ok(got.inp, got.val[1]) ELSE got)

read_short(inp) ==
    Bind(ReadFixed(inp, 2, "short"), LAMBDA got :
        IF got.ok THEN Ok(got.inp, got.val[1] * 256 + got.val[2]) ELSE got)

read_int(inp) == ReadFixed(inp, 4, "int")

read_long(inp) == ReadFixed(inp, 8, "long")

\* (a slip: a float read with a tag of its own)
read_float_OwnTag(inp) == ReadFixed(inp, 4, "float")

\* self.read_int()? as u32, then f32::from_bits
read_float(inp) == read_int(inp)

\* self.read_long()? as u64, then f64::from_bits
read_double(inp) == read_long(inp)

read_utf(inp) ==
    Bind(read_short(inp), LAMBDA length :
        IF ~length.ok THEN length
        ELSE Bind(ReadFixed(length.inp, length.val, "UTF string"), LAMBDA buffer :
                 IF ~buffer.ok THEN buffer
                 ELSE IF IsUtf8(buffer.val) THEN buffer
                 ELSE Err(buffer.inp, ReadError("UTF string (invalid UTF-8)"))))

\* (a slip: the string put first, so that the indices held before it move)
PushInterned_Front(inp, string) ==
    [inp EXCEPT !.interned_strings = <<string>> \o @]

\* self.interned_strings.push(string.clone())
PushInterned(inp, string) ==
    [inp EXCEPT !.interned_strings = Append(@, string)]

\* (a slip: self.interned_strings[index as usize].clone(), which panics on
\* an index out of range)
InternedGet_Indexing(inp, index) ==
    IF index < Len(inp.interned_strings)
    THEN Ok(inp, inp.interned_strings[index + 1])
    ELSE Err(inp, Panic("index out of bounds"))

\* (a slip: the index clamped to the table)
InternedGet_Clamped(inp, index) ==
    IF inp.interned_strings = <<>>
    THEN Err(inp, InvalidInternedStringIndex(index))
    ELSE Ok(inp, inp.interned_strings[Min(index + 1, Len(inp.interned_strings))])

\* self.interned_strings.get(index as usize).cloned()
\*     .ok_or(AbxError::InvalidInternedStringIndex(index))
InternedGet(inp, index) ==
    IF index < Len(inp.interned_strings)
    THEN Ok(inp, inp.interned_strings[index + 1])
    ELSE Err(inp, InvalidInternedStringIndex(index))

read_interned_utf(inp) ==
    Bind(read_short(inp), LAMBDA index :
        IF ~index.ok THEN index
        ELSE IF index.val = 65535
        THEN Bind(read_utf(index.inp), LAMBDA string :
                 IF ~string.ok THEN string
                 ELSE Ok(PushInterned(string.inp, string.val), string.val))
        ELSE InternedGet(index.inp, index.val))

read_bytes(inp, length) == ReadFixed(inp, length, "bytes")

tell(inp) == StreamPosition(inp.reader)

\* (a slip: the position not restored)
seek_Nowhere(inp, pos) == inp

seek(inp, pos) ==
    Bind(SeekStart(inp.reader, pos), LAMBDA sought : [inp EXCEPT !.reader = sought.rd])

\* (a slip: the position not restored after the seek to the end)
is_eof_NoRestore(inp) ==
    LET current_pos == StreamPosition(inp.reader)
    IN Bind(SeekEnd(inp.reader), LAMBDA to_end :
           [eof |-> current_pos >= to_end.ret, inp |-> [inp EXCEPT !.reader = to_end.rd]])

\* the position is read, the reader sought to its end and back
is_eof(inp) ==
    LET current_pos == StreamPosition(inp.reader)
    IN Bind(SeekEnd(inp.reader), LAMBDA to_end :
       Bind(SeekStart(to_end.rd, current_pos), LAMBDA back :
           [eof |-> current_pos >= to_end.ret, inp |-> [inp EXCEPT !.reader = back.rd]]))

(***************************************************************************)
(* binary_xml.rs: BinaryXmlDeserializer                                    *)
(*                                                                         *)
(* The struct's fields, and with them: at, where the call of deserialize   *)
(* stands ("new": not called, "loop": at the head of its while loop,       *)
(* "attrs": at the head of the attribute loop of a START_TAG, "returned",  *)
(* "panicked"); result, what deserialize returned; warning, the error of   *)
(* the token that ended the loop, which deserialize prints and drops; and  *)
(* three logs the code does not keep, written for the properties only:     *)
(* h_tags, the START_TAGs whose name was read, each with the stream        *)
(* position after its name; h_attrs, the attributes that process_attribute *)
(* decoded, each with the position the attribute loop had saved before     *)
(* reading its token and the position after its value; and h_bytes, the    *)
(* position of every byte taken as a token, by process_token ("token") or  *)
(* by the attribute loop ("attribute").                                    *)
(* The output is a Vec<u8>, whose writes cannot fail.                      *)
(***************************************************************************)

Write(de, text) == [de EXCEPT !.output = @ \o text]

\* (a slip: the first byte alone compared)
MagicMatches_FirstByteOnly(magic) == magic[1] = PROTOCOL_MAGIC_VERSION_0[1]

\* if magic != PROTOCOL_MAGIC_VERSION_0
MagicMatches(magic) == magic = PROTOCOL_MAGIC_VERSION_0

\* BinaryXmlDeserializer::new: [ok, err, de]
DeserializerNew(reader, output, collect_policies) ==
    Bind(ReadExact(reader, 4), LAMBDA magic :
        LET de == [input |-> FastDataInputNew(magic.rd),
                   output |-> output,
                   collect_policies |-> collect_policies,
                   policies |-> <<>>,
                   restriction_node_offset |-> 0,
                   already_read_restrictions_user |-> FALSE,
                   at |-> "new",
                   warning |-> NoError,
                   result |-> "none",
                   h_tags |-> <<>>,
                   h_attrs |-> <<>>,
                   h_bytes |-> <<>>]
        IN IF ~magic.ok THEN [ok |-> FALSE, err |-> ReadError("magic header"), de |-> de]
           ELSE IF ~MagicMatches(magic.data)
           THEN [ok |-> FALSE, err |-> InvalidMagicHeader, de |-> de]
           ELSE [ok |-> TRUE, err |-> NoError, de |-> de])

\* the match on type_info of process_attribute: the value read and its
\* text, [ok, err, inp, text]
AttrText(got, text) ==
    [ok |-> got.ok, err |-> got.err, inp |-> got.inp,
     text |-> IF got.ok THEN text ELSE <<>>]

\* let length = self.input.read_short()?; let bytes = self.input.read_bytes(length)?
ReadBlob(inp) ==
    Bind(read_short(inp), LAMBDA length :
        IF ~length.ok THEN length ELSE read_bytes(length.inp, length.val))

AttributeValue(inp, type_info) ==
    IF type_info = TYPE_STRING
    THEN Bind(read_utf(inp), LAMBDA value :
             AttrText(value, encode_xml_entities(value.val)))
    ELSE IF type_info = TYPE_STRING_INTERNED
    THEN Bind(read_interned_utf(inp), LAMBDA value :
             AttrText(value, encode_xml_entities(value.val)))
    ELSE IF type_info = TYPE_INT
    THEN Bind(read_int(inp), LAMBDA value :
             AttrText(value, DisplaySigned(value.val)))
    ELSE IF type_info = TYPE_INT_HEX
    THEN Bind(read_int(inp), LAMBDA value :
             AttrText(value, <<48, 120>> \o UpperHexOfBytes(value.val)))       \* "0x{:X}"
    ELSE IF type_info = TYPE_LONG
    THEN Bind(read_long(inp), LAMBDA value :
             AttrText(value, DisplaySigned(value.val)))
    ELSE IF type_info = TYPE_LONG_HEX
    THEN Bind(read_long(inp), LAMBDA value :
             AttrText(value, <<48, 120>> \o UpperHexOfBytes(value.val)))       \* "0x{:X}"
    ELSE IF type_info = TYPE_FLOAT
    THEN Bind(read_float(inp), LAMBDA value :
             AttrText(value, FloatDisplay(value.val, 8)))
    ELSE IF type_info = TYPE_DOUBLE
    THEN Bind(read_double(inp), LAMBDA value :
             AttrText(value, FloatDisplay(value.val, 11)))
    ELSE IF type_info = TYPE_BOOLEAN_TRUE
    THEN AttrText(Ok(inp, <<>>), <<116, 114, 117, 101>>)                       \* "true"
    ELSE IF type_info = TYPE_BOOLEAN_FALSE
    THEN AttrText(Ok(inp, <<>>), <<102, 97, 108, 115, 101>>)                   \* "false"
    ELSE IF type_info = TYPE_BYTES_HEX
    THEN Bind(ReadBlob(inp), LAMBDA bytes :
             AttrText(bytes, HexEncodeUpper(bytes.val)))
    ELSE IF type_info = TYPE_BYTES_BASE64
    THEN Bind(ReadBlob(inp), LAMBDA bytes :
             AttrText(bytes, Base64Encode(bytes.val)))
    ELSE AttrText(Err(inp, UnknownAttributeType(type_info)), <<>>)

\* (a slip: the token byte left out of the span)
StartOffset_NoToken(inp) == tell(inp)

\* let start_offset = self.input.tell()? as u32 - 1
StartOffset(inp) == tell(inp) - 1

\* tell()? as u32 - 1 at position 0: a panic where overflow is checked (a
\* wrap to 0xFFFFFFFF where it is not; the decode is marked in both cases)
StartOffsetUnderflows(inp) == tell(inp) < 1

\* (a slip: the flag not looked at)
CollectPolicy_Always(de, policy) == [de EXCEPT !.policies = Append(@, policy)]

\* (a slip: the record put first)
CollectPolicy_Front(de, policy) ==
    IF de.collect_policies THEN [de EXCEPT !.policies = <<policy>> \o @] ELSE de

\* if self.collect_policies { self.policies.push(..) }
CollectPolicy(de, policy) ==
    IF de.collect_policies THEN [de EXCEPT !.policies = Append(@, policy)] ELSE de

\* process_attribute, from the value read: its text, the record, the quote
FinishAttribute(de, name, start_offset, value) ==
    IF ~value.ok
    THEN [ok |-> FALSE, err |-> value.err, de |-> [de EXCEPT !.input = value.inp],
          name |-> name]
    ELSE LET end_offset == tell(value.inp)
             written == [de EXCEPT !.input = value.inp, !.output = @ \o value.text]
         IN [ok |-> TRUE, err |-> NoError,
             de |-> Write(CollectPolicy(written, Policy(name, start_offset, end_offset)),
                          <<34>>),                                             \* "\""
             name |-> name]

\* process_attribute: [ok, err, de, name]; the text written before an error
\* stays written
process_attribute(de, token) ==
    LET start_offset == StartOffset(de.input)
        type_info == (token \div 16) * 16
    IN IF StartOffsetUnderflows(de.input)
       THEN [ok |-> FALSE, err |-> Panic("attempt to subtract with overflow"),
             de |-> de, name |-> <<>>]
       ELSE
       Bind(read_interned_utf(de.input), LAMBDA name :
           IF ~name.ok
           THEN [ok |-> FALSE, err |-> name.err, de |-> [de EXCEPT !.input = name.inp],
                 name |-> <<>>]
           ELSE Bind(AttributeValue(name.inp, type_info), LAMBDA value :
                    FinishAttribute(Write(de, <<32>> \o name.val \o <<61, 34>>),  \* " {}=\""
                                    name.val, start_offset, value)))

\* deserialize, its last line: Ok(())
Return(de) == [de EXCEPT !.at = "returned", !.result = "Ok"]

\* a panic inside process_token: deserialize does not return
Unwind(de, err) == [de EXCEPT !.at = "panicked", !.warning = err]

\* (a slip: the warning printed and the loop not left)
BreakOnError_Continue(de, err) == [de EXCEPT !.warning = err]

\* deserialize, on an error of process_token: the warning is printed, the
\* loop is left and Ok(()) returned
BreakOnError(de, err) ==
    IF err.kind = "Panic" THEN Unwind(de, err)
    ELSE Return([de EXCEPT !.warning = err])

\* (a slip: Ok(true), the loop goes on)
EndDocument_Continue(de) == de

\* END_DOCUMENT => Ok(false), and the break of deserialize
EndDocument(de) == Return(de)

\* (a slip: the tag closed as an empty element)
TagClose_SelfClosing == <<47, 62>>

\* write!(self.output, ">")
TagClose == <<62>>

\* (a variant: the offset kept once set, so that the first tag decides)
NoteRestrictions_FirstOnly(de, tag_name) ==
    IF /\ tag_name = RESTRICTIONS
       /\ de.already_read_restrictions_user
       /\ de.restriction_node_offset = 0
    THEN [de EXCEPT !.restriction_node_offset = tell(de.input)]
    ELSE de

\* if tag_name == "restrictions" && self.already_read_restrictions_user
NoteRestrictions(de, tag_name) ==
    IF tag_name = RESTRICTIONS /\ de.already_read_restrictions_user
    THEN [de EXCEPT !.restriction_node_offset = tell(de.input)]
    ELSE de

\* if tag_name == "restrictions_user"
NoteRestrictionsUser(de, tag_name) ==
    IF tag_name = RESTRICTIONS_USER
    THEN [de EXCEPT !.already_read_restrictions_user = TRUE]
    ELSE de

\* process_token, START_TAG, up to the attribute loop
StartTag(de) ==
    Bind(read_interned_utf(de.input), LAMBDA tag_name :
        IF ~tag_name.ok THEN BreakOnError([de EXCEPT !.input = tag_name.inp], tag_name.err)
        ELSE Bind(NoteRestrictionsUser([de EXCEPT !.input = tag_name.inp], tag_name.val),
                  LAMBDA flagged :
             Bind(NoteRestrictions(flagged, tag_name.val), LAMBDA noted :
                 [noted EXCEPT !.h_tags = Append(@, [name |-> tag_name.val,
                                                     after_name |-> tell(noted.input),
                                                     text_at |-> Len(noted.output) + 1
                                                                 + Len(tag_name.val)]),
                               !.output = @ \o <<60>> \o tag_name.val,         \* "<{}"
                               !.at = "attrs"])))

\* process_token, START_TAG: one pass of  while let Ok(pos) = self.input.tell();
\* leaving the loop seeks back to pos, writes ">" and returns Ok(true)
AttributeLoopStep(de) ==
    LET pos == tell(de.input)
    IN Bind(read_byte(de.input), LAMBDA next_token :
           IF next_token.ok /\ next_token.val % 16 = ATTRIBUTE
           THEN Bind(process_attribute(
                         [de EXCEPT !.input = next_token.inp,
                                    !.h_bytes = Append(@, [pos |-> pos, as |-> "attribute"])],
                         next_token.val), LAMBDA attr :
                    IF ~attr.ok THEN BreakOnError(attr.de, attr.err)
                    ELSE [attr.de EXCEPT !.h_attrs =
                             Append(@, [name |-> attr.name, token_pos |-> pos,
                                        end_pos |-> tell(attr.de.input),
                                        text_from |-> Len(de.output),
                                        text_to |-> Len(attr.de.output)])])
           ELSE Bind(seek(next_token.inp, pos), LAMBDA back :
                    [de EXCEPT !.input = back, !.output = @ \o TagClose, !.at = "loop"]))

\* the arms of process_token that hold one string: read it when the type
\* nibble is TYPE_STRING, and write it between open and close
StringToken(de, type_info, open, close, escaped, skip_empty) ==
    IF type_info # TYPE_STRING THEN de
    ELSE Bind(read_utf(de.input), LAMBDA text :
             IF ~text.ok THEN BreakOnError([de EXCEPT !.input = text.inp], text.err)
             ELSE IF skip_empty /\ text.val = <<>> THEN [de EXCEPT !.input = text.inp]
             ELSE IF escaped
             THEN Bind(encode_xml_entities(text.val), LAMBDA encoded :
                      [de EXCEPT !.input = text.inp, !.output = @ \o open \o encoded \o close])
             ELSE [de EXCEPT !.input = text.inp, !.output = @ \o open \o text.val \o close])

\* process_token, END_TAG
EndTag(de) ==
    Bind(read_interned_utf(de.input), LAMBDA tag_name :
        IF ~tag_name.ok THEN BreakOnError([de EXCEPT !.input = tag_name.inp], tag_name.err)
        ELSE [de EXCEPT !.input = tag_name.inp,
                        !.output = @ \o <<60, 47>> \o tag_name.val \o <<62>>])  \* "</{}>"

\* (a slip: an Err returned for a command that is not known)
UnknownToken_Fatal(de) == Return([de EXCEPT !.warning = ReadError("token")])

\* _ => { eprintln!("Warning: Unknown token: {}", command); Ok(true) }
UnknownToken(de) == de

\* process_token, from the token byte read
Dispatch(de, token) ==
    LET command == token % 16
        type_info == (token \div 16) * 16
    IN IF command = START_DOCUMENT THEN de
       ELSE IF command = END_DOCUMENT THEN EndDocument(de)
       ELSE IF command = START_TAG THEN StartTag(de)
       ELSE IF command = END_TAG THEN EndTag(de)
       ELSE IF command = TEXT
       THEN StringToken(de, type_info, <<>>, <<>>, TRUE, TRUE)
       ELSE IF command = CDSECT
       THEN StringToken(de, type_info, <<60, 33, 91, 67, 68, 65, 84, 65, 91>>,  \* "<![CDATA["
                        <<93, 93, 62>>, FALSE, FALSE)                         \* "]]>"
       ELSE IF command = COMMENT
       THEN StringToken(de, type_info, <<60, 33, 45, 45>>,                    \* "<!--"
                        <<45, 45, 62>>, FALSE, FALSE)                         \* "-->"
       ELSE IF command = PROCESSING_INSTRUCTION
       THEN StringToken(de, type_info, <<60, 63>>, <<63, 62>>, FALSE, FALSE)  \* "<?" "?>"
       ELSE IF command = DOCDECL
       THEN StringToken(de, type_info,
                        <<60, 33, 68, 79, 67, 84, 89, 80, 69, 32>>,           \* "<!DOCTYPE "
                        <<62>>, FALSE, FALSE)
       ELSE IF command = ENTITY_REF
       THEN StringToken(de, type_info, <<38>>, <<59>>, FALSE, FALSE)          \* "&" ";"
       ELSE IF command = IGNORABLE_WHITESPACE
       THEN StringToken(de, type_info, <<>>, <<>>, FALSE, FALSE)
       ELSE UnknownToken(de)

\* process_token: the token byte, then its arm
process_token(de) ==
    Bind(read_byte(de.input), LAMBDA token :
        IF ~token.ok THEN BreakOnError([de EXCEPT !.input = token.inp], token.err)
        ELSE Dispatch([de EXCEPT !.input = token.inp,
                                 !.h_bytes = Append(@, [pos |-> tell(de.input),
                                                        as |-> "token"])],
                      token.val))

\* deserialize, up to its loop: the XML declaration
DeserializeBegin(de) == [Write(de, XML_DECL) EXCEPT !.at = "loop"]

\* deserialize: one pass of  while !self.input.is_eof()
DeserializeLoopStep(de) ==
    Bind(is_eof(de.input), LAMBDA probe :
        IF probe.eof THEN Return([de EXCEPT !.input = probe.inp])
        ELSE process_token([de EXCEPT !.input = probe.inp]))

DeserializeStep(de) ==
    IF de.at = "new" THEN DeserializeBegin(de)
    ELSE IF de.at = "loop" THEN DeserializeLoopStep(de)
    ELSE IF de.at = "attrs" THEN AttributeLoopStep(de)
    ELSE de

\* deserialize, from call to return
RECURSIVE deserialize(_)
deserialize(de) ==
    IF de.at \in {"returned", "panicked"} THEN de
    ELSE Bind(DeserializeStep(de), LAMBDA next : deserialize(next))

get_policies(de) == de.policies

get_restriction_node_offset(de) == de.restriction_node_offset

(***************************************************************************)
(* main.rs: the patcher.  quick_xml is outside the repository; ReadEvents  *)
(* is its Reader on the markup the decoder writes for tags and attributes: *)
(* a declaration, start tags with attributes, end tags and text.           *)
(***************************************************************************)

Range(s) == {s[i] : i \in 1..Len(s)}

\* the offset of the first byte b of text at or after from, Len(text) when
\* there is none
FindByte(text, from, b) == NextOf(text, from, {b})

\* the offset of the ">" that closes the markup entered before from; a ">"
\* inside a quoted attribute value does not close it
RECURSIVE FindTagEnd(_, _, _)
FindTagEnd(text, from, quote) ==
    IF quote = 0
    THEN Bind(NextOf(text, from, {34, 39, 62}), LAMBDA at :
             IF at >= Len(text) THEN Len(text)
             ELSE IF text[at + 1] = 62 THEN at
             ELSE FindTagEnd(text, at + 1, text[at + 1]))
    ELSE Bind(NextOf(text, from, {quote}), LAMBDA at :
             IF at >= Len(text) THEN Len(text)
             ELSE FindTagEnd(text, at + 1, 0))

XmlSpaces == {32, 9, 10, 13}

SkipSpaces(text, from) == NextOf(text, from, (0..255) \ XmlSpaces)

FindSpace(text, from) == NextOf(text, from, XmlSpaces)

\* e.attributes().flatten(): the keys of the key="value" pairs of a start tag,
\* a repeated key being an Err that flatten drops
RECURSIVE AttributeKeys(_, _, _)
AttributeKeys(content, from, keys) ==
    Bind(SkipSpaces(content, from), LAMBDA start :
        IF start >= Len(content) THEN keys
        ELSE Bind(FindByte(content, start, 61), LAMBDA eq :
            IF eq + 1 >= Len(content) THEN keys
            ELSE IF content[eq + 2] \notin {34, 39} THEN keys
            ELSE Bind(FindByte(content, eq + 2, content[eq + 2]), LAMBDA close :
                IF close >= Len(content) THEN keys
                ELSE Bind(Slice(content, start, eq), LAMBDA key :
                    AttributeKeys(content, close + 1,
                                  IF key \in Range(keys) THEN keys ELSE Append(keys, key))))))

\* get_policy_list, the match on one Event::Start: [flag, list]
StartEvent(body, is_correct_policy_node, list_output) ==
    Bind(FindSpace(body, 0), LAMBDA name_end :
        IF Slice(body, 0, name_end) = RESTRICTIONS
        THEN [flag |-> is_correct_policy_node,
              list |-> IF is_correct_policy_node
                       THEN list_output \o AttributeKeys(body, name_end, <<>>)
                       ELSE list_output]
        ELSE IF Slice(body, 0, name_end) = RESTRICTIONS_USER
        THEN [flag |-> TRUE, list |-> list_output]
        ELSE [flag |-> is_correct_policy_node, list |-> list_output])

TagName(body) == Slice(body, 0, FindSpace(body, 0))

\* get_policy_list, its loop over reader.read_event_into(..).unwrap():
\* [ok, list], ok false when an event is an Err and unwrap panics (markup
\* never closed, an end tag that does not match the open start tag)
RECURSIVE ReadEvents(_, _, _, _, _)
ReadEvents(text, from, open, is_correct_policy_node, list_output) ==
    IF from >= Len(text) THEN [ok |-> TRUE, list |-> list_output]            \* Event::Eof
    ELSE IF text[from + 1] # 60                                              \* Event::Text
    THEN Bind(FindByte(text, from, 60), LAMBDA next :
             ReadEvents(text, next, open, is_correct_policy_node, list_output))
    ELSE Bind(FindTagEnd(text, from + 1, 0), LAMBDA close :
        IF close >= Len(text) THEN [ok |-> FALSE, list |-> list_output]
        ELSE Bind(Slice(text, from + 1, close), LAMBDA body :
            IF body = <<>> THEN [ok |-> FALSE, list |-> list_output]
            ELSE IF body[1] \in {63, 33}                                     \* Decl, PI, Comment..
            THEN ReadEvents(text, close + 1, open, is_correct_policy_node, list_output)
            ELSE IF body[1] = 47                                             \* Event::End
            THEN IF open # <<>> /\ open[Len(open)] = TagName(Tail(body))
                 THEN ReadEvents(text, close + 1, SubSeq(open, 1, Len(open) - 1),
                                 is_correct_policy_node, list_output)
                 ELSE [ok |-> FALSE, list |-> list_output]
            ELSE IF body[Len(body)] = 47                                     \* Event::Empty
            THEN ReadEvents(text, close + 1, open, is_correct_policy_node, list_output)
            ELSE Bind(StartEvent(body, is_correct_policy_node, list_output),  \* Event::Start
                      LAMBDA seen :
                     ReadEvents(text, close + 1, Append(open, TagName(body)),
                                seen.flag, seen.list))))

\* SeekableReader::new(BufReader::new(File::open(path))), BinaryXmlDeserializer::new(..)
\* and deserialize: [ok, de], ok false when new returned an Err
DecodeFile(bytes, collect_policies) ==
    Bind(DeserializerNew(SeekableReaderNew(InnerNew(
             IF bytes = <<>> THEN <<>> ELSE <<bytes>>)), <<>>, collect_policies),
         LAMBDA new :
             IF new.ok THEN [ok |-> TRUE, de |-> deserialize(new.de)]
             ELSE [ok |-> FALSE, de |-> new.de])

\* get_readable_xml: [ok, text], ok false when an unwrap panics
get_readable_xml(bytes) ==
    Bind(DecodeFile(bytes, FALSE), LAMBDA decoded :
        IF decoded.ok /\ IsUtf8(decoded.de.output)
        THEN [ok |-> TRUE, text |-> decoded.de.output]
        ELSE [ok |-> FALSE, text |-> <<>>])

\* get_policy_list: [ok, list], ok false when an unwrap panics
get_policy_list(bytes) ==
    Bind(get_readable_xml(bytes), LAMBDA xml :
        IF xml.ok THEN ReadEvents(xml.text, 0, <<>>, FALSE, <<>>)
        ELSE [ok |-> FALSE, list |-> <<>>])

\* policy_to_bytes
policy_to_bytes(policy_name) ==
    <<207, 255, 255>>
    \o <<(Len(policy_name) % 65536) \div 256, Len(policy_name) % 256>>
    \o policy_name

\* let len = buffer.len(); if len >= 5 { buffer[len - 5] = buffer[len - 5].wrapping_sub(1) }
DecrementCounter(buffer) ==
    IF Len(buffer) >= 5 THEN [buffer EXCEPT ![Len(buffer) - 4] = (@ + 255) % 256]
    ELSE buffer

\* if len >= 5 { buffer[len - 5] = buffer[len - 5].wrapping_add(1) }
IncrementCounter(buffer) ==
    IF Len(buffer) >= 5 THEN [buffer EXCEPT ![Len(buffer) - 4] = (@ + 1) % 256]
    ELSE buffer

\* buffer.drain(start..end) panics when the range ends past the buffer
DrainPanics(buffer, start, end) == end > Len(buffer)

\* buffer.drain(start..end)
Drain(buffer, start, end) == Slice(buffer, 0, start) \o Slice(buffer, end, Len(buffer))

\* buffer.splice(offset..offset, bytes)
Splice(buffer, offset, bytes) ==
    Slice(buffer, 0, offset) \o bytes \o Slice(buffer, offset, Len(buffer))

\* main, lines 83-94: the buffer a removal writes
RemovePolicy(buffer, policy) ==
    DecrementCounter(Drain(buffer, policy.start_offset, policy.end_offset))

\* main, lines 106-121: the buffer an insertion writes
InsertPolicy(buffer, offset, policy_name) ==
    IncrementCounter(Splice(buffer, offset, policy_to_bytes(policy_name)))

\* (a slip: the flag left as it was when a record matches)
NoteMatch_Kept(should_create_policy) == should_create_policy

\* should_create_policy = false
NoteMatch(should_create_policy) == FALSE

\* uncleaned_policy_list.into_iter().filter(|policy| policy_names.contains(&policy.name))
CleanedPolicyList(policies, policy_names) ==
    SelectSeq(policies, LAMBDA policy : policy.name \in Range(policy_names))

(***************************************************************************)
(* converter.rs and cli.rs: the abx2xml command.  The world is the files   *)
(* at the paths the command can name, what stdin holds, what has been      *)
(* written to stdout, and io, the operations made on files and streams, in *)
(* order.  A path is a string, "-" standing for stdin or stdout; an        *)
(* Option<String> is <<>> or <<path>>.  A file that is opened is read as a *)
(* whole by the decoder's BufReader, which like the seek adapter answers   *)
(* seek(End) with its length and reads from where it was sought to.        *)
(***************************************************************************)

CliPaths == {"a", "b"}

Absent == [exists |-> FALSE, bytes |-> <<>>]

Present(bytes) == [exists |-> TRUE, bytes |-> bytes]

NoWorld == [fs |-> [path \in CliPaths |-> Absent], stdin |-> <<>>, stdout |-> <<>>,
            io |-> <<>>]

Did(w, op, path) == [w EXCEPT !.io = Append(@, [op |-> op, path |-> path])]

\* AbxToXmlConverter::convert: [ok, err, output]
convert(bytes) ==
    Bind(DeserializerNew(SeekableReaderNew(InnerNew(
             IF bytes = <<>> THEN <<>> ELSE <<bytes>>)), <<>>, FALSE),
         LAMBDA new :
             IF ~new.ok THEN [ok |-> FALSE, err |-> new.err, output |-> <<>>]
             ELSE Bind(deserialize(new.de), LAMBDA de :
                      [ok |-> TRUE, err |-> NoError, output |-> de.output]))

\* every convert_* returns [ok, err, w]
Converted(w, conv) == [ok |-> conv.ok, err |-> conv.err, w |-> w]

\* File::open(path)? of a path with no file
NotFound(w, path) == [ok |-> FALSE, err |-> Io("open"), w |-> Did(w, "open", path)]

\* File::create(path): the file is there and empty
Create(w, path) == [Did(w, "create", path) EXCEPT !.fs[path] = Present(<<>>)]

\* what the BufWriter of a file hands to it, when anything was written
WriteFile(w, path, bytes) ==
    IF bytes = <<>> THEN w
    ELSE [Did(w, "write", path) EXCEPT !.fs[path] = Present(bytes)]

WriteStdout(w, bytes) ==
    IF bytes = <<>> THEN w
    ELSE [Did(w, "write", "-") EXCEPT !.stdout = @ \o bytes]

convert_file_in_place(w, file_path) ==
    IF ~w.fs[file_path].exists THEN NotFound(w, file_path)
    ELSE Bind(convert(w.fs[file_path].bytes), LAMBDA conv :
             IF ~conv.ok THEN Converted(Did(Did(w, "open", file_path), "read", file_path), conv)
             ELSE Converted(WriteFile(Create(Did(Did(w, "open", file_path), "read", file_path),
                                             file_path),
                                      file_path, conv.output), conv))

convert_file(w, input_path, output_path) ==
    IF input_path = output_path THEN convert_file_in_place(w, input_path)
    ELSE IF ~w.fs[input_path].exists THEN NotFound(w, input_path)
    ELSE Bind(convert(w.fs[input_path].bytes), LAMBDA conv :
             Converted(WriteFile(Did(Create(Did(w, "open", input_path), output_path),
                                     "read", input_path),
                                 output_path, conv.output), conv))

convert_stdin_stdout(w) ==
    Bind(convert(w.stdin), LAMBDA conv :
        Converted(WriteStdout(Did(w, "read", "-"), conv.output), conv))

convert_stdin_to_file(w, output_path) ==
    Bind(convert(w.stdin), LAMBDA conv :
        Converted(WriteFile(Did(Create(w, output_path), "read", "-"),
                            output_path, conv.output), conv))

convert_file_to_stdout(w, input_path) ==
    IF ~w.fs[input_path].exists THEN NotFound(w, input_path)
    ELSE Bind(convert(w.fs[input_path].bytes), LAMBDA conv :
             Converted(WriteStdout(Did(Did(w, "open", input_path), "read", input_path),
                                   conv.output), conv))

\* (a slip: the output path looked at, not the input path)
RejectsStdin_Output(args) == args.in_place /\ args.output = <<"-">>

\* if in_place && input_path == "-"
RejectsStdin(args) == args.in_place /\ args.input = "-"

\* let output_path = match output_path { .. }
OutputPath(args) ==
    IF args.output # <<>> THEN args.output[1]
    ELSE IF args.in_place THEN args.input
    ELSE "-"

\* Cli::run_with_matches: [ok, err, w]
run_with_matches(args, w) ==
    IF RejectsStdin(args)
    THEN [ok |-> FALSE, err |-> ParseError("Cannot use -i option with stdin input"),
          w |-> w]
    ELSE IF args.input = "-" /\ OutputPath(args) = "-" THEN convert_stdin_stdout(w)
    ELSE IF args.input = "-" THEN convert_stdin_to_file(w, OutputPath(args))
    ELSE IF OutputPath(args) = "-" THEN convert_file_to_stdout(w, args.input)
    ELSE convert_file(w, args.input, OutputPath(args))

(***************************************************************************)
(* The seek adapter on its own: a client that reads and seeks at will.     *)
(***************************************************************************)

\* bounds of the seek-adapter specification
MaxSrcLen == 3

MaxReadLen == 3

MaxSeekPos == 4

SrcBytes == {65, 66}

RECURSIVE SeqsUpTo(_, _)
SeqsUpTo(S, n) ==
    IF n = 0 THEN {<<>>}
    ELSE LET shorter == SeqsUpTo(S, n - 1)
         IN shorter \cup {<<x>> \o s : x \in S, s \in {t \in shorter : Len(t) = n - 1}}

\* every way of cutting s into non-empty chunks
RECURSIVE Chunkings(_)
Chunkings(s) ==
    IF s = <<>> THEN {<<>>}
    ELSE UNION {{<<SubSeq(s, 1, n)>> \o rest : rest \in Chunkings(SubSeq(s, n + 1, Len(s)))}
                : n \in 1..Len(s)}

NoCall == [name |-> "none", arg |-> 0, ret |-> 0, data |-> <<>>]

ReaderStart ==
    /\ src \in SeqsUpTo(SrcBytes, MaxSrcLen)
    /\ \E chunks \in Chunkings(src) : rd = SeekableReaderNew(InnerNew(chunks))
    /\ r_op = NoCall
    /\ r_prev = NoCall

\* the parts of the state a specification does not use
ReaderIdle ==
    /\ src = <<>>
    /\ rd = SeekableReaderNew(InnerNew(<<>>))
    /\ r_op = NoCall
    /\ r_prev = NoCall

DecodeIdle ==
    /\ d_file = <<>>
    /\ d_new = [called |-> TRUE, ok |-> FALSE, err |-> NoError]
    /\ dec = DeserializerNew(SeekableReaderNew(InnerNew(<<>>)), <<>>, FALSE).de

InternIdle ==
    /\ i_inp = FastDataInputNew(SeekableReaderNew(InnerNew(<<>>)))
    /\ i_calls = <<>>

NoFile == [exists |-> FALSE, bytes |-> <<>>]

NotPrinted == [ok |-> FALSE, text |-> <<>>]

PatchIdle ==
    /\ p_path = <<>>
    /\ p_name = <<>>
    /\ p_pc = "done"
    /\ p_de = DeserializerNew(SeekableReaderNew(InnerNew(<<>>)), <<>>, FALSE).de
    /\ p_names = <<>>
    /\ p_list = <<>>
    /\ p_i = 1
    /\ p_create = TRUE
    /\ p_out = NoFile
    /\ p_same = FALSE
    /\ p_ops = <<>>
    /\ p_xml = NotPrinted

CliIdle ==
    /\ c_args = [in_place |-> FALSE, input |-> "-", output |-> <<>>]
    /\ c_before = NoWorld
    /\ c_world = NoWorld
    /\ c_pc = "done"
    /\ c_result = [ok |-> TRUE, err |-> NoError]

ReaderInit == ReaderStart /\ DecodeIdle /\ InternIdle /\ PatchIdle /\ CliIdle

DoRead ==
    \E k \in 0..MaxReadLen :
        \E res \in {SeekableRead(rd, k)} :
           /\ rd' = res.rd
           /\ r_op' = [name |-> "read", arg |-> k, ret |-> Len(res.data), data |-> res.data]
           /\ r_prev' = r_op
           /\ UNCHANGED <<src, decode_vars, intern_vars, patch_vars, cli_vars>>

DoSeekStart ==
    \E p \in 0..MaxSeekPos :
        \E res \in {SeekStart(rd, p)} :
           /\ rd' = res.rd
           /\ r_op' = [name |-> "seek_start", arg |-> p, ret |-> res.ret, data |-> <<>>]
           /\ r_prev' = r_op
           /\ UNCHANGED <<src, decode_vars, intern_vars, patch_vars, cli_vars>>

DoSeekCurrent ==
    \E d \in (0 - MaxSeekPos)..MaxSeekPos :
        \E res \in {SeekCurrent(rd, d)} :
           /\ rd' = res.rd
           /\ r_op' = [name |-> "seek_current", arg |-> d, ret |-> res.ret, data |-> <<>>]
           /\ r_prev' = r_op
           /\ UNCHANGED <<src, decode_vars, intern_vars, patch_vars, cli_vars>>

DoSeekEnd ==
    \E res \in {SeekEnd(rd)} :
       /\ rd' = res.rd
       /\ r_op' = [name |-> "seek_end", arg |-> 0, ret |-> res.ret, data |-> <<>>]
       /\ r_prev' = r_op
       /\ UNCHANGED <<src, decode_vars, intern_vars, patch_vars, cli_vars>>

\* FastDataInput::is_eof on a FastDataInput that holds the adapter; ret is 1
\* for true
DoIsEof ==
    \E res \in {is_eof(FastDataInputNew(rd))} :
       /\ rd' = res.inp.reader
       /\ r_op' = [name |-> "is_eof", arg |-> 0, ret |-> IF res.eof THEN 1 ELSE 0,
                   data |-> <<>>]
       /\ r_prev' = r_op
       /\ UNCHANGED <<src, decode_vars, intern_vars, patch_vars, cli_vars>>

ReaderNext == DoRead \/ DoSeekStart \/ DoSeekCurrent \/ DoSeekEnd \/ DoIsEof

SpecReader == ReaderInit /\ [][ReaderNext]_vars

\* C3: after any calls, seek(Start(p)) with p <= len(S) and then one read of
\* a k-byte buffer returns exactly S[p .. min(p+k, len(S))) and leaves the
\* cursor at min(p+k, len(S)), however the source is chunked.
C3_SeekThenRead ==
    (r_prev.name = "seek_start" /\ r_prev.arg <= Len(src) /\ r_op.name = "read")
    => /\ r_op.data = Slice(src, r_prev.arg, r_prev.arg + r_op.arg)
       /\ rd.position = Min(r_prev.arg + r_op.arg, Len(src))

\* a seek to offset 2 of a 3-byte source and a read of 3 bytes, which gets 1
C3_Witness ==
    /\ Len(src) = 3
    /\ r_prev.name = "seek_start" /\ r_prev.arg = 2 /\ r_prev.ret = 2
    /\ r_op.name = "read" /\ r_op.arg = 3 /\ r_op.data = <<src[3]>>

\* C15: after any calls the buffer of the adapter is the part of the source
\* that has been pulled from the wrapped stream, in order, and what the
\* stream has still to deliver is the rest: no byte is pulled twice, changed
\* or dropped; a call only appends to the buffer; and after the stream has
\* returned Ok(0) it is not read again.
C15_ByteRetention ==
    /\ [](/\ rd.buffer \o Flatten(rd.inner.chunks) = src
          /\ rd.inner.reads_after_eof = 0
          /\ rd.end_reached <=> rd.inner.eof_seen
          /\ rd.end_reached => rd.buffer = src)
    /\ [][/\ IsPrefix(rd.buffer, rd'.buffer)
          /\ rd.end_reached => (rd'.inner = rd.inner /\ rd'.buffer = rd.buffer)]_vars

\* a source of 3 bytes pulled to its end in 3 reads and a fourth that
\* returned Ok(0); a read of 2 bytes at the end then gets nothing and does
\* not touch the stream
C15_Witness ==
    /\ Len(src) = 3
    /\ rd.end_reached
    /\ rd.inner.reads = 4
    /\ r_prev.name = "seek_end"
    /\ r_op.name = "read" /\ r_op.arg = 2 /\ r_op.ret = 0

\* the cursor a read started from
ReadFrom == rd.position - r_op.ret

\* C16: a read of n bytes at cursor c returns the min(n, len(S) - c) bytes of
\* the source from c on, in one call, however the source is chunked; it
\* returns fewer than n only when the source is exhausted and holds fewer
\* than c + n bytes.
C16_FullRead ==
    r_op.name = "read"
    => /\ ReadFrom >= 0 /\ ReadFrom <= Len(src)
       /\ r_op.ret = Min(r_op.arg, Len(src) - ReadFrom)
       /\ r_op.data = Slice(src, ReadFrom, ReadFrom + r_op.arg)
       /\ r_op.ret < r_op.arg => (rd.end_reached /\ Len(src) < ReadFrom + r_op.arg)

\* the first call on a 3-byte source delivered a byte at a time: a read of 3
\* bytes, which pulls three chunks and returns all 3
C16_Witness ==
    /\ Len(src) = 3
    /\ r_prev.name = "none"
    /\ r_op.name = "read" /\ r_op.arg = 3 /\ r_op.ret = 3
    /\ rd.inner.reads = 3
    /\ ~rd.end_reached

\* the reads a step has made of the wrapped stream
Pulls == rd'.inner.reads - rd.inner.reads

\* C22: seek(Start(p)) pulls nothing when p is at most the buffered length;
\* otherwise it pulls until the buffer holds p bytes or the stream has
\* returned Ok(0), and no further (before its last pull the buffer was short
\* of p).  The cursor is then min(p, buffered length), which is what the call
\* returns, and it is never past the length of the source.
C22_SeekStart ==
    [][r_op'.name = "seek_start" =>
       /\ r_op'.ret = Min(r_op'.arg, Len(rd'.buffer))
       /\ rd'.position = r_op'.ret
       /\ r_op'.ret <= Len(src)
       /\ Len(rd'.buffer) >= r_op'.arg \/ rd'.end_reached
       /\ r_op'.arg <= Len(rd.buffer)
          => (Pulls = 0 /\ rd'.buffer = rd.buffer /\ rd'.inner = rd.inner)
       /\ (Pulls > 0 /\ ~rd'.end_reached)
          => Len(rd'.buffer) - Len(rd.inner.chunks[Pulls]) < r_op'.arg
       /\ (Pulls > 0 /\ rd'.end_reached) => Len(src) < r_op'.arg]_vars

\* the first call on a 3-byte source that comes in two chunks: a seek to 4,
\* which pulls both, meets the end and leaves the cursor at 3
C22_Witness ==
    /\ Len(src) = 3
    /\ r_prev.name = "none"
    /\ r_op.name = "seek_start" /\ r_op.arg = 4 /\ r_op.ret = 3
    /\ rd.position = 3
    /\ rd.end_reached
    /\ rd.inner.reads = 3

\* C23: is_eof leaves the cursor where it was and returns true exactly when
\* the cursor is at or past the end of the source; on the seek adapter it
\* pulls the source to its end, and a read made after it returns the bytes of
\* the source from the cursor on, as it would have without the probe.
C23_IsEofKeepsPosition ==
    /\ [][r_op'.name = "is_eof" =>
          /\ rd'.position = rd.position
          /\ r_op'.ret = IF rd.position >= Len(src) THEN 1 ELSE 0
          /\ rd'.end_reached
          /\ rd'.buffer = src]_vars
    /\ []((r_prev.name = "is_eof" /\ r_op.name = "read")
          => r_op.data = Slice(src, ReadFrom, ReadFrom + r_op.arg))

\* a read of 1 byte of a 3-byte source, the probe, which answers false with
\* the cursor still at 1 and the source drained
C23_Witness ==
    /\ Len(src) = 3
    /\ r_prev.name = "read" /\ r_prev.ret = 1
    /\ r_op.name = "is_eof" /\ r_op.ret = 0
    /\ rd.position = 1
    /\ rd.end_reached
    /\ rd.buffer = src

\* the bytes the source has delivered so far
Delivered == Len(src) - Len(Flatten(rd.inner.chunks))

\* C30: after any calls of read and seek, 0 <= position <= buffer length <=
\* source length; the exhausted flag once set stays set, and when it is set
\* the source has signalled its end and the buffer holds as many bytes as
\* the source delivered before that.
C30_CursorInvariant ==
    /\ [](/\ 0 <= rd.position
          /\ rd.position <= Len(rd.buffer)
          /\ Len(rd.buffer) <= Len(src))
    /\ [](rd.end_reached =>
            /\ rd.inner.eof_seen
            /\ rd.inner.reads_after_eof = 0
            /\ Len(rd.buffer) = Delivered)
    /\ [][rd.end_reached => rd'.end_reached]_vars

\* a seek back to offset 1 of a 3-byte source made after a seek to its end
C30_Witness ==
    /\ Len(src) = 3
    /\ r_prev.name = "seek_end"
    /\ r_op.name = "seek_start"
    /\ rd.end_reached
    /\ rd.position = 1
    /\ Len(rd.buffer) = 3

(***************************************************************************)
(* One decode: BinaryXmlDeserializer::new on a source, then deserialize,   *)
(* a step at a time.                                                       *)
(***************************************************************************)

\* bounds of the decode specification
MaxTokens == 3

MaxAttrs == 2

MaxRawLen == 6

\* the encodings the sources are built from
U16(n) == <<n \div 256, n % 256>>

Utf(string) == U16(Len(string)) \o string

Define(string) == <<255, 255>> \o Utf(string)

Ref(index) == U16(index)

\* s cut into chunks of n bytes
RECURSIVE ChunksOf(_, _)
ChunksOf(s, n) ==
    IF s = <<>> THEN <<>>
    ELSE <<SubSeq(s, 1, Min(n, Len(s)))>> \o ChunksOf(SubSeq(s, Min(n, Len(s)) + 1, Len(s)), n)

ChunkSizes == {3, TEMP_BUF_LEN}

\* tokens of tag structure
TagPieces ==
    { <<50>> \o Define(RESTRICTIONS_USER),     \* <restrictions_user, defined
      <<50>> \o Define(RESTRICTIONS),          \* <restrictions, defined
      <<50>> \o Ref(1),                        \* <(string 1)
      <<51>> \o Ref(0),                        \* </(string 0)>
      <<207>> \o Define(<<97>>),               \* a="true", a defined
      <<111>> \o Ref(0) \o <<0, 0, 0, 1>>,     \* (string 0)="1"
      <<36>> \o Utf(<<60>>),                   \* the text "<"
      <<27>>,                                  \* command 11, unknown
      <<17>> }                                 \* END_DOCUMENT

\* one attribute of each type, and of an unknown one
AttrPieces ==
    { <<47>> \o Define(<<97>>) \o Utf(<<38, 34>>),                       \* STRING
      <<63>> \o Define(<<98>>) \o Ref(1),                               \* STRING_INTERNED
      <<79>> \o Ref(0) \o U16(2) \o <<171, 205>>,                       \* BYTES_HEX
      <<95>> \o Ref(0) \o U16(1) \o <<77>>,                             \* BYTES_BASE64
      <<111>> \o Ref(0) \o <<255, 255, 255, 255>>,                      \* INT
      <<127>> \o Ref(0) \o <<0, 0, 0, 255>>,                            \* INT_HEX
      <<143>> \o Ref(0) \o <<0, 0, 0, 1, 0, 0, 0, 0>>,                  \* LONG
      <<159>> \o Ref(0) \o <<255, 255, 255, 255, 255, 255, 255, 255>>,  \* LONG_HEX
      <<175>> \o Ref(0) \o <<63, 128, 0, 0>>,                           \* FLOAT
      <<191>> \o Ref(0) \o <<64, 0, 0, 0, 0, 0, 0, 0>>,                 \* DOUBLE
      <<207>> \o Ref(0),                                                \* BOOLEAN_TRUE
      <<223>> \o Ref(0),                                                \* BOOLEAN_FALSE
      <<31>> \o Ref(0),                                                 \* type 1, unknown
      <<111>> \o Ref(0) \o <<0, 0>>,                                    \* INT, cut short
      <<47>> \o Ref(5) \o Utf(<<97>>) }                                 \* name out of range

\* bytes of sources that are not built from tokens: START_DOCUMENT, START_TAG,
\* and 0xFF, which is an attribute token of an unknown type and half of the
\* 0xFFFF of a definition
RawBytes == {0, 50, 255}

BadHeaders == { <<>>, <<65, 66, 88>>, <<65, 66, 88, 1>>, <<65, 0, 0, 0>>, <<0, 66, 88, 0>> }

\* root holding a, whose attribute x is the TYPE_INT 1
RootFile ==
    PROTOCOL_MAGIC_VERSION_0
    \o <<50>> \o Define(<<114, 111, 111, 116>>)           \* START_TAG root
    \o <<50>> \o Define(<<97>>)                           \* START_TAG a
    \o <<111>> \o Define(<<120>>) \o <<0, 0, 0, 1>>       \* ATTRIBUTE x, TYPE_INT 1
    \o <<51>> \o Ref(1)                                   \* END_TAG a
    \o <<51>> \o Ref(0)                                   \* END_TAG root

DecodeFiles ==
    {RootFile} \cup
    {PROTOCOL_MAGIC_VERSION_0 \o Flatten(ts) : ts \in SeqsUpTo(TagPieces, MaxTokens)}
    \cup {PROTOCOL_MAGIC_VERSION_0 \o <<50>> \o Define(<<116>>) \o Flatten(as) \o tail :
              as \in SeqsUpTo(AttrPieces, MaxAttrs), tail \in {<<>>, <<51, 0, 0>>}}
    \cup {h \o t : h \in BadHeaders, t \in {<<>>, <<17>>, <<50>> \o Define(<<116>>)}}
    \cup {PROTOCOL_MAGIC_VERSION_0 \o raw : raw \in SeqsUpTo(RawBytes, MaxRawLen)}

\* before BinaryXmlDeserializer::new is called: the reader that will be
\* handed to it, and the value of collect_policies
NotConstructed(reader, collect_policies) ==
    [input |-> FastDataInputNew(reader),
     output |-> <<>>,
     collect_policies |-> collect_policies,
     policies |-> <<>>,
     restriction_node_offset |-> 0,
     already_read_restrictions_user |-> FALSE,
     at |-> "none",
     warning |-> NoError,
     result |-> "none",
     h_tags |-> <<>>,
     h_attrs |-> <<>>,
     h_bytes |-> <<>>]

DecodeStart ==
    /\ d_file \in DecodeFiles
    /\ d_new = [called |-> FALSE, ok |-> FALSE, err |-> NoError]
    /\ \E n \in ChunkSizes, collect \in BOOLEAN :
          dec = NotConstructed(SeekableReaderNew(InnerNew(ChunksOf(d_file, n))), collect)

DecodeInit == DecodeStart /\ ReaderIdle /\ InternIdle /\ PatchIdle /\ CliIdle

\* BinaryXmlDeserializer::new(reader, output, collect_policies)
New ==
    /\ ~d_new.called
    /\ \E new \in {DeserializerNew(dec.input.reader, <<>>, dec.collect_policies)} :
          /\ d_new' = [called |-> TRUE, ok |-> new.ok, err |-> new.err]
          /\ dec' = new.de
    /\ UNCHANGED <<d_file, reader_vars, intern_vars, patch_vars, cli_vars>>

Begin ==
    /\ d_new.ok
    /\ dec.at = "new"
    /\ dec' = DeserializeBegin(dec)
    /\ UNCHANGED <<d_file, d_new, reader_vars, intern_vars, patch_vars, cli_vars>>

LoopStep ==
    /\ d_new.ok
    /\ dec.at = "loop"
    /\ dec' = DeserializeLoopStep(dec)
    /\ UNCHANGED <<d_file, d_new, reader_vars, intern_vars, patch_vars, cli_vars>>

AttrStep ==
    /\ d_new.ok
    /\ dec.at = "attrs"
    /\ dec' = AttributeLoopStep(dec)
    /\ UNCHANGED <<d_file, d_new, reader_vars, intern_vars, patch_vars, cli_vars>>

DecodeNext == New \/ Begin \/ LoopStep \/ AttrStep

SpecDecode == DecodeInit /\ [][DecodeNext]_vars

\* the attributes decoded so far, as the records they should have left
ExpectedPolicies ==
    [i \in 1..Len(dec.h_attrs) |->
        Policy(dec.h_attrs[i].name, dec.h_attrs[i].token_pos, dec.h_attrs[i].end_pos)]

\* C5: with collection enabled every attribute decoded leaves exactly one
\* record, in order, whose start_offset is the offset in the source (header
\* included) of its token byte and whose end_offset is the offset after the
\* last byte of its value; with collection disabled the list stays empty.
C5_ExactPolicySpans ==
    /\ dec.policies = IF dec.collect_policies THEN ExpectedPolicies ELSE <<>>
    /\ \A i \in 1..Len(dec.policies) :
          /\ dec.policies[i].start_offset >= Len(PROTOCOL_MAGIC_VERSION_0)
          /\ d_file[dec.policies[i].start_offset + 1] % 16 = ATTRIBUTE
          /\ dec.policies[i].end_offset <= Len(d_file)

\* two attributes collected, the second a LONG named by a back-reference:
\* 1 token byte, 2 of index, 8 of value
C5_Witness ==
    /\ dec.collect_policies
    /\ Len(dec.policies) = 2
    /\ dec.policies[2].end_offset - dec.policies[2].start_offset = 11
    /\ dec.policies[2].start_offset = dec.policies[1].end_offset

\* the START_TAGs named "restrictions" read after one named "restrictions_user"
RestrictionTagsOf(de) ==
    {j \in 1..Len(de.h_tags) :
        /\ de.h_tags[j].name = RESTRICTIONS
        /\ \E i \in 1..(j - 1) : de.h_tags[i].name = RESTRICTIONS_USER}

RestrictionTags == RestrictionTagsOf(dec)

First(S) == CHOOSE j \in S : \A k \in S : j <= k

Last(S) == CHOOSE j \in S : \A k \in S : j >= k

\* C6 as claimed: after a decode the restriction insertion offset is the
\* position after the name of the FIRST "restrictions" START_TAG decoded after
\* a "restrictions_user" START_TAG, also when there are several.
C6_FirstRestrictionsTag ==
    (dec.at = "returned" /\ RestrictionTags # {})
    => dec.restriction_node_offset = dec.h_tags[First(RestrictionTags)].after_name

\* C6 amended: it is the position after the name of the LAST such tag, and 0
\* when there is none.
C6_LastRestrictionsTag ==
    dec.at = "returned"
    => dec.restriction_node_offset =
          IF RestrictionTags = {} THEN 0
          ELSE dec.h_tags[Last(RestrictionTags)].after_name

\* a decode that met two such tags
C6_Witness ==
    /\ dec.at = "returned"
    /\ Cardinality(RestrictionTags) = 2
    /\ dec.restriction_node_offset > dec.h_tags[First(RestrictionTags)].after_name

\* C10: new succeeds exactly when the source starts with 0x41 0x42 0x58 0x00;
\* when it fails it fails with an error at construction, the output is empty,
\* deserialize has not run and no byte after the header has been read.
C10_MagicHeader ==
    d_new.called
    => /\ d_new.ok <=> (Len(d_file) >= 4 /\ SubSeq(d_file, 1, 4) = <<65, 66, 88, 0>>)
       /\ ~d_new.ok =>
          /\ d_new.err.kind \in {"ReadError", "InvalidMagicHeader"}
          /\ dec.output = <<>>
          /\ dec.at = "new"
          /\ dec.h_tags = <<>> /\ dec.h_attrs = <<>> /\ dec.policies = <<>>
          /\ dec.input.reader.position <= 4

\* a source refused for its fourth byte, with a token after the header
C10_Witness ==
    /\ d_new.called
    /\ ~d_new.ok
    /\ d_new.err.kind = "InvalidMagicHeader"
    /\ Len(d_file) > 4
    /\ SubSeq(d_file, 1, 3) = <<65, 66, 88>>

\* the step on which process_token returns an error
TokenFails == dec.warning = NoError /\ dec'.warning # NoError

\* what process_attribute has written when the value of the attribute fails
AttributeOpening(name) == <<32>> \o name \o <<61, 34>>

\* C11: no step takes anything back from the output; the step on which
\* process_token returns an error ends deserialize with Ok(()), and the output
\* is then the output before the token, followed by the part of the failing
\* token already written (nothing, or the opening  name="  of an attribute
\* whose value failed); after it nothing changes any more.
C11_TolerantLoop ==
    [][/\ IsPrefix(dec.output, dec'.output)
       /\ dec.warning # NoError => dec' = dec
       /\ TokenFails =>
          /\ dec'.at = "returned"
          /\ dec'.result = "Ok"
          /\ IsPrefix(XML_DECL, dec'.output)
          /\ \/ dec'.output = dec.output
             \/ /\ dec.at = "attrs"
                /\ \E i \in 1..Len(dec'.input.interned_strings) :
                      dec'.output = dec.output
                                    \o AttributeOpening(dec'.input.interned_strings[i])
          /\ dec'.policies = dec.policies]_vars

\* a decode ended by the second attribute of a tag, whose value is cut short:
\* the first attribute and the opening of the second are in the output
C11_Witness ==
    /\ dec.at = "returned"
    /\ dec.result = "Ok"
    /\ dec.warning.kind = "ReadError"
    /\ Len(dec.h_attrs) = 1
    /\ dec.h_attrs[1].text_to < Len(dec.output)
    /\ SubSeq(dec.output, Len(dec.output) - 1, Len(dec.output)) = <<61, 34>>

\* the errors of lib.rs that a token can end with
FieldErrors == {"ReadError", "InvalidInternedStringIndex", "UnknownAttributeType"}

\* the bytes of the source not read yet, and how far the call has come at
\* its position: a step that lowers neither cannot be taken for ever
Rank(at) ==
    IF at = "none" THEN 4 ELSE IF at = "new" THEN 3 ELSE IF at = "attrs" THEN 2
    ELSE IF at = "loop" THEN 1 ELSE 0

Variant(de) == 5 * (Len(d_file) - tell(de.input)) + Rank(de.at)

KnownTypes ==
    {TYPE_STRING, TYPE_STRING_INTERNED, TYPE_BYTES_HEX, TYPE_BYTES_BASE64, TYPE_INT,
     TYPE_INT_HEX, TYPE_LONG, TYPE_LONG_HEX, TYPE_FLOAT, TYPE_DOUBLE, TYPE_BOOLEAN_TRUE,
     TYPE_BOOLEAN_FALSE}

\* the byte of the source the attribute loop reads next, -1 at its end
NextByte == IF tell(dec.input) < Len(d_file) THEN d_file[tell(dec.input) + 1] ELSE -1

\* the attribute loop stands before an attribute token of an unknown type
UnknownTypeNext ==
    /\ d_new.ok
    /\ dec.at = "attrs"
    /\ NextByte # -1
    /\ NextByte % 16 = ATTRIBUTE
    /\ (NextByte \div 16) * 16 \notin KnownTypes

RootText ==
    <<60, 114, 111, 111, 116, 62>>
    \o <<60, 97, 32, 120, 61, 34, 49, 34, 62>>
    \o <<60, 47, 97, 62>>
    \o <<60, 47, 114, 111, 111, 116, 62>>

\* the text a step has appended to the output
Appended == SubSeq(dec'.output, Len(dec.output) + 1, Len(dec'.output))

\* the name an END_TAG read by the step names: the string its 16-bit index
\* stands for, or the one it defines
EndTagName ==
    LET index == d_file[tell(dec.input) + 2] * 256 + d_file[tell(dec.input) + 3]
        table == dec'.input.interned_strings
    IN IF index = 65535 THEN table[Len(table)] ELSE table[index + 1]

\* C17: the source of root, a, x stored as TYPE_INT 1, and the two END_TAGs
\* decodes to the XML declaration and <root><a x="1"></a></root>.  On every
\* source a START_TAG writes "<" and its name, each of its attributes a
\* space, the name and the quoted value, the end of its attributes ">" alone,
\* and an END_TAG "</", its name and ">": no tag is closed with "/>".
C17_EndToEnd ==
    /\ []((d_file = RootFile /\ dec.at = "returned")
          => dec.warning = NoError /\ dec.output = XML_DECL \o RootText)
    /\ [][/\ (dec.at = "loop" /\ dec'.at = "attrs")
             => Appended = <<60>> \o dec'.h_tags[Len(dec'.h_tags)].name
          /\ (dec.at = "attrs" /\ dec'.at = "attrs")
             => /\ IsPrefix(AttributeOpening(dec'.h_attrs[Len(dec'.h_attrs)].name), Appended)
                /\ Appended[Len(Appended)] = 34
          /\ (dec.at = "attrs" /\ dec'.at = "loop") => Appended = <<62>>
          /\ (/\ d_new.ok /\ dec.at = "loop" /\ NextByte # -1 /\ NextByte % 16 = END_TAG
              /\ dec'.warning = NoError)
             => Appended = <<60, 47>> \o EndTagName \o <<62>>]_vars

\* that source decoded to its end
C17_Witness ==
    /\ d_file = RootFile
    /\ dec.at = "returned"
    /\ Len(dec.h_tags) = 2
    /\ Len(dec.h_attrs) = 1
    /\ SubSeq(dec.output, Len(dec.output) - 6, Len(dec.output))
       = <<60, 47, 114, 111, 111, 116, 62>>

\* the byte the attribute loop reads next is no attribute token, or there is
\* none
NoAttributeNext == NextByte = -1 \/ NextByte % 16 # ATTRIBUTE

\* C19: when the byte after a START_TAG name or after an attribute is no
\* attribute token, or the source has ended, the pass of the attribute loop
\* leaves the position where it was before the byte, writes ">" and takes
\* the byte as nothing; the attribute loop is left in no other way.  Every
\* byte taken as a token, by the attribute loop or by process_token, is the
\* one at the position of the stream, so that the byte looked at is the next
\* one dispatched, and no byte is taken twice.
C19_LookaheadNotConsumed ==
    /\ [](\A i, j \in 1..Len(dec.h_bytes) :
             i < j => dec.h_bytes[i].pos < dec.h_bytes[j].pos)
    /\ [][/\ (d_new.ok /\ dec.at = "attrs" /\ NoAttributeNext)
             => /\ dec'.at = "loop"
                /\ tell(dec'.input) = tell(dec.input)
                /\ Appended = <<62>>
                /\ dec'.h_bytes = dec.h_bytes
          /\ (dec.at = "attrs" /\ dec'.at = "loop") => NoAttributeNext
          /\ (d_new.ok /\ dec.at \in {"loop", "attrs"})
             => dec'.h_bytes =
                   IF NextByte = -1 \/ (dec.at = "attrs" /\ NoAttributeNext)
                   THEN dec.h_bytes
                   ELSE Append(dec.h_bytes,
                               [pos |-> tell(dec.input),
                                as |-> IF dec.at = "attrs" THEN "attribute"
                                       ELSE "token"])]_vars

\* after an attribute the loop has met an END_TAG: ">" is written and the
\* END_TAG is the byte at the position, not yet dispatched
C19_Witness ==
    /\ dec.at = "loop"
    /\ dec.h_attrs # <<>>
    /\ dec.h_bytes[Len(dec.h_bytes)].as = "attribute"
    /\ dec.output[Len(dec.output)] = 62
    /\ NextByte = 51
    /\ tell(dec.input) = dec.h_attrs[Len(dec.h_attrs)].end_pos

\* C20: the step that dispatches a token of command END_DOCUMENT ends
\* deserialize with Ok(()) and no warning; it writes nothing and leaves the
\* policy records and the restriction offset as they were; after the return
\* nothing changes and no byte is taken as a token.
C20_EndDocument ==
    [][/\ (/\ d_new.ok /\ dec.at = "loop" /\ NextByte # -1
           /\ NextByte % 16 = END_DOCUMENT)
          => /\ dec'.at = "returned"
             /\ dec'.result = "Ok"
             /\ dec'.warning = NoError
             /\ dec'.output = dec.output
             /\ dec'.policies = dec.policies
             /\ dec'.restriction_node_offset = dec.restriction_node_offset
             /\ dec'.h_bytes = Append(dec.h_bytes,
                                      [pos |-> tell(dec.input), as |-> "token"])
             /\ tell(dec'.input) = tell(dec.input) + 1
       /\ dec.at = "returned" => dec' = dec]_vars

\* a decode ended by END_DOCUMENT after a tag, with bytes of the source
\* behind it that were never taken as tokens
C20_Witness ==
    /\ dec.at = "returned"
    /\ dec.warning = NoError
    /\ dec.h_tags # <<>>
    /\ d_file[dec.h_bytes[Len(dec.h_bytes)].pos + 1] = 17
    /\ dec.h_bytes[Len(dec.h_bytes)].pos + 1 < Len(d_file)
    /\ tell(dec.input) = dec.h_bytes[Len(dec.h_bytes)].pos + 1

\* the commands process_token has an arm for
HandledCommands ==
    {START_DOCUMENT, END_DOCUMENT, START_TAG, END_TAG, TEXT, CDSECT, ENTITY_REF,
     IGNORABLE_WHITESPACE, PROCESSING_INSTRUCTION, COMMENT, DOCDECL}

\* C21: a pass of the top-level loop over a token whose command nibble has no
\* arm (11 to 14, and 15, ATTRIBUTE, which is a command of the attribute loop
\* only) reads that one byte and nothing else: the output, the policy
\* records, the interned strings and the restriction offset are as before,
\* there is no warning kept, and the loop goes on at the next byte.
C21_UnknownCommand ==
    [][(/\ d_new.ok /\ dec.at = "loop" /\ NextByte # -1
        /\ NextByte % 16 \notin HandledCommands)
       => /\ dec'.at = "loop"
          /\ dec'.warning = NoError
          /\ tell(dec'.input) = tell(dec.input) + 1
          /\ dec'.output = dec.output
          /\ dec'.policies = dec.policies
          /\ dec'.restriction_node_offset = dec.restriction_node_offset
          /\ dec'.input.interned_strings = dec.input.interned_strings
          /\ dec'.h_bytes = Append(dec.h_bytes,
                                   [pos |-> tell(dec.input), as |-> "token"])]_vars

\* a token of command 11 was passed over after a tag, and a token follows it
C21_Witness ==
    /\ dec.at = "loop"
    /\ dec.h_tags # <<>>
    /\ dec.h_bytes # <<>>
    /\ d_file[dec.h_bytes[Len(dec.h_bytes)].pos + 1] = 27
    /\ tell(dec.input) = dec.h_bytes[Len(dec.h_bytes)].pos + 1
    /\ NextByte # -1

\* the position at which the token of the running iteration of the top-level
\* loop was read
IterationStart ==
    Bind({k \in 1..Len(dec.h_bytes) : dec.h_bytes[k].as = "token"}, LAMBDA tokens :
        IF tokens = {} THEN -1
        ELSE dec.h_bytes[CHOOSE k \in tokens : \A m \in tokens : m <= k].pos)

\* C26: a decode of a source with the magic header terminates: a step of the
\* top-level loop ends the loop or leaves the position past the one the
\* iteration began at, a step of the attribute loop ends that loop (with the
\* position put back to where its last read began, still past the start of
\* the iteration) or moves the position on; the position never passes the end
\* of the source, and a step is possible until deserialize has returned.
C26_DecodeTerminates ==
    /\ [][(d_new.ok /\ dec.at \in {"loop", "attrs"}) =>
           \/ dec'.at = "returned"
           \/ /\ dec.at = "loop"
              /\ dec'.at \in {"loop", "attrs"}
              /\ tell(dec'.input) > tell(dec.input)
           \/ /\ dec.at = "attrs"
              /\ dec'.at = "attrs"
              /\ tell(dec'.input) > tell(dec.input)
           \/ /\ dec.at = "attrs"
              /\ dec'.at = "loop"
              /\ tell(dec'.input) = tell(dec.input)
              /\ tell(dec'.input) > IterationStart]_vars
    /\ [](tell(dec.input) <= Len(d_file))
    /\ []((d_new.ok /\ dec.at # "returned") => ENABLED DecodeNext)

\* a decode that has returned at the end of its source after two tokens,
\* one of them a tag with two attributes
C26_Witness ==
    /\ d_new.ok
    /\ dec.at = "returned"
    /\ tell(dec.input) = Len(d_file)
    /\ Cardinality({k \in 1..Len(dec.h_bytes) : dec.h_bytes[k].as = "attribute"}) = 2
    /\ Cardinality({k \in 1..Len(dec.h_bytes) : dec.h_bytes[k].as = "token"}) = 2

\* C27: with collection enabled the records are in stream order: each has
\* 7 <= start_offset < end_offset <= the stream position, each begins where
\* or after the one before it ends, the byte of the source at start_offset
\* has the low nibble 0xF; and a step of the decode only appends to the list.
C27_PolicyListInvariant ==
    /\ []((d_new.ok /\ dec.collect_policies) =>
            /\ \A i \in 1..Len(dec.policies) :
                  /\ 7 <= dec.policies[i].start_offset
                  /\ dec.policies[i].start_offset < dec.policies[i].end_offset
                  /\ dec.policies[i].end_offset <= tell(dec.input)
                  /\ d_file[dec.policies[i].start_offset + 1] % 16 = 15
            /\ \A i \in 2..Len(dec.policies) :
                  dec.policies[i - 1].end_offset <= dec.policies[i].start_offset)
    /\ [][IsPrefix(dec.policies, dec'.policies)]_vars

\* a decode that has returned with two records, the second beginning where
\* the first ends
C27_Witness ==
    /\ d_new.ok
    /\ dec.collect_policies
    /\ dec.at = "returned"
    /\ Len(dec.policies) = 2
    /\ dec.policies[1].end_offset = dec.policies[2].start_offset
    /\ dec.policies[2].end_offset <= tell(dec.input)

(***************************************************************************)
(* The interned-string table: read_interned_utf called again and again on  *)
(* one FastDataInput.                                                      *)
(***************************************************************************)

\* bound of the interned-string specification: the tokens of a source
MaxInternTokens == 4

InternPieces ==
    { Define(<<97>>),            \* "a" defined
      Define(<<98>>),            \* "b" defined
      Define(<<>>),              \* "" defined
      Ref(0), Ref(1), Ref(2),
      <<255, 255, 0, 1, 255>> }  \* a definition that is not UTF-8

InternStart ==
    /\ \E ts \in SeqsUpTo(InternPieces, MaxInternTokens), n \in ChunkSizes :
          i_inp = FastDataInputNew(SeekableReaderNew(InnerNew(ChunksOf(Flatten(ts), n))))
    /\ i_calls = <<>>

InternInit == InternStart /\ ReaderIdle /\ DecodeIdle /\ PatchIdle /\ CliIdle

\* one call; the index is the 16-bit value the call reads first, -1 when the
\* source ends before it
CallReadInternedUtf ==
    /\ Len(i_calls) <= MaxInternTokens
    /\ \E index \in {read_short(i_inp)}, got \in {read_interned_utf(i_inp)} :
          /\ i_inp' = got.inp
          /\ i_calls' = Append(i_calls, [index |-> IF index.ok THEN index.val ELSE -1,
                                         ok |-> got.ok, val |-> got.val, err |-> got.err])
    /\ UNCHANGED <<reader_vars, decode_vars, patch_vars, cli_vars>>

InternNext == CallReadInternedUtf

SpecIntern == InternInit /\ [][InternNext]_vars

\* how many of the first j calls were successful definitions
DefinitionsUpTo(j) ==
    Cardinality({m \in 1..j : i_calls[m].ok /\ i_calls[m].index = 65535})

\* C4: the i-th successful definition stores its string at table index i-1,
\* and every later call that reads index i-1 returns that same string,
\* whatever comes in between.
C4_InternedRoundTrip ==
    \A j \in 1..Len(i_calls) :
        (i_calls[j].ok /\ i_calls[j].index = 65535)
        => LET i == DefinitionsUpTo(j)
           IN /\ Len(i_inp.interned_strings) >= i
              /\ i_inp.interned_strings[i] = i_calls[j].val
              /\ \A k \in (j + 1)..Len(i_calls) :
                    i_calls[k].index = i - 1
                    => i_calls[k].ok /\ i_calls[k].val = i_calls[j].val

\* "a" defined, "b" defined, then index 0 read back as "a"
C4_Witness ==
    /\ Len(i_calls) = 3
    /\ i_calls[1].ok /\ i_calls[1].index = 65535 /\ i_calls[1].val = <<97>>
    /\ i_calls[2].ok /\ i_calls[2].index = 65535 /\ i_calls[2].val = <<98>>
    /\ i_calls[3].ok /\ i_calls[3].index = 0 /\ i_calls[3].val = <<97>>

\* the call a step of the specification has made
LastCall == i_calls'[Len(i_calls')]

\* C14: a call that reads an index other than 0xFFFF succeeds exactly when the
\* index is below the length of the table, with the string at that index, and
\* fails with InvalidInternedStringIndex of that index otherwise; it leaves
\* the table as it was.  A definition appends its string when it succeeds and
\* nothing when it fails, and so does a call cut off before its index.
C14_InternedIndexBounds ==
    [][Len(i_calls') = Len(i_calls) + 1 =>
       /\ LastCall.index \notin {65535, -1} =>
          /\ LastCall.ok <=> LastCall.index < Len(i_inp.interned_strings)
          /\ LastCall.ok => LastCall.val = i_inp.interned_strings[LastCall.index + 1]
          /\ ~LastCall.ok => /\ LastCall.err.kind = "InvalidInternedStringIndex"
                             /\ LastCall.err.n = LastCall.index
          /\ i_inp'.interned_strings = i_inp.interned_strings
       /\ LastCall.index = 65535 =>
          i_inp'.interned_strings =
             IF LastCall.ok THEN Append(i_inp.interned_strings, LastCall.val)
             ELSE i_inp.interned_strings
       /\ LastCall.index = -1 =>
          ~LastCall.ok /\ i_inp'.interned_strings = i_inp.interned_strings]_vars

\* "a" defined, a definition that is not UTF-8 and appends nothing, and then
\* index 1, the length of the table, refused
C14_Witness ==
    /\ Len(i_calls) = 3
    /\ i_calls[1].ok /\ i_calls[1].index = 65535
    /\ ~i_calls[2].ok /\ i_calls[2].index = 65535
    /\ ~i_calls[3].ok /\ i_calls[3].index = 1
    /\ i_calls[3].err.kind = "InvalidInternedStringIndex"
    /\ Len(i_inp.interned_strings) = 1

\* ------------------------------------------------------------------------
\* Fixed-width reads: the primitives of FastDataInput called on short sources
\* ------------------------------------------------------------------------

MaxPrimLen == 8

MaxPrimCalls == 2

PrimBytes == {1, 255}

PrimStart ==
    /\ src \in SeqsUpTo(PrimBytes, MaxPrimLen)
    /\ \E n \in ChunkSizes :
          i_inp = FastDataInputNew(SeekableReaderNew(InnerNew(ChunksOf(src, n))))
    /\ i_calls = <<>>
    /\ rd = SeekableReaderNew(InnerNew(<<>>))
    /\ r_op = NoCall
    /\ r_prev = NoCall

PrimInit == PrimStart /\ DecodeIdle /\ PatchIdle /\ CliIdle

\* one call of a primitive; left is the number of bytes of the source after
\* the position when the call is made
CallPrimitive(name, got) ==
    /\ Len(i_calls) < MaxPrimCalls
    /\ i_inp' = got.inp
    /\ i_calls' = Append(i_calls, [name |-> name, left |-> Len(src) - tell(i_inp),
                                   ok |-> got.ok, err |-> got.err])
    /\ UNCHANGED <<reader_vars, decode_vars, patch_vars, cli_vars>>

CallReadByte == \E got \in {read_byte(i_inp)} : CallPrimitive("read_byte", got)

CallReadShort == \E got \in {read_short(i_inp)} : CallPrimitive("read_short", got)

CallReadInt == \E got \in {read_int(i_inp)} : CallPrimitive("read_int", got)

CallReadLong == \E got \in {read_long(i_inp)} : CallPrimitive("read_long", got)

CallReadFloat == \E got \in {read_float(i_inp)} : CallPrimitive("read_float", got)

CallReadDouble == \E got \in {read_double(i_inp)} : CallPrimitive("read_double", got)

PrimNext ==
    \/ CallReadByte
    \/ CallReadShort
    \/ CallReadInt
    \/ CallReadLong
    \/ CallReadFloat
    \/ CallReadDouble

SpecPrim == PrimInit /\ [][PrimNext]_vars

\* the byte count of each primitive
PrimWidth ==
    [read_byte |-> 1, read_short |-> 2, read_int |-> 4, read_long |-> 8,
     read_float |-> 4, read_double |-> 8]

\* C24, as stated: a primitive fails exactly when fewer bytes are left than
\* its width, with a ReadError tagged by the kind of field the caller
\* attempted: "byte", "short", "int", "long", and "float" and "double" for
\* read_float and read_double.
C24_TaggedByAttemptedKind ==
    \A k \in 1..Len(i_calls) :
       /\ i_calls[k].ok <=> i_calls[k].left >= PrimWidth[i_calls[k].name]
       /\ ~i_calls[k].ok =>
             i_calls[k].err =
                ReadError([read_byte |-> "byte", read_short |-> "short",
                           read_int |-> "int", read_long |-> "long",
                           read_float |-> "float",
                           read_double |-> "double"][i_calls[k].name])

\* C24, amended: a primitive fails exactly when fewer bytes are left than its
\* width, with a ReadError tagged "byte", "short", "int" or "long" by
\* read_byte, read_short, read_int and read_long; read_float and read_double
\* read through read_int and read_long, and their failures carry the tags
\* "int" and "long".
C24_TaggedByIntegerRead ==
    \A k \in 1..Len(i_calls) :
       /\ i_calls[k].ok <=> i_calls[k].left >= PrimWidth[i_calls[k].name]
       /\ ~i_calls[k].ok =>
             i_calls[k].err =
                ReadError([read_byte |-> "byte", read_short |-> "short",
                           read_int |-> "int", read_long |-> "long",
                           read_float |-> "int",
                           read_double |-> "long"][i_calls[k].name])

\* a read_int that takes 4 of 7 bytes, then a read_float that finds 3 and
\* fails as an "int" read
C24_Witness ==
    /\ Len(src) = 7
    /\ Len(i_calls) = 2
    /\ i_calls[1].name = "read_int" /\ i_calls[1].ok
    /\ i_calls[2].name = "read_float" /\ ~i_calls[2].ok
    /\ i_calls[2].left = 3
    /\ i_calls[2].err = ReadError("int")

\* ------------------------------------------------------------------------
\* Hexadecimal attributes: one tag with one INT_HEX or LONG_HEX attribute
\* ------------------------------------------------------------------------

IntHexBytes == {0, 10, 128, 255}

LongHexBytes == {0, 10, 255}

\* the header, <t, and the attribute a up to its value
HexHead(token) ==
    PROTOCOL_MAGIC_VERSION_0 \o <<50>> \o Define(<<116>>) \o <<token>> \o Define(<<97>>)

HexFiles ==
    {HexHead(TYPE_INT_HEX + ATTRIBUTE) \o <<b1, b2, b3, b4>> :
        b1 \in IntHexBytes, b2 \in IntHexBytes, b3 \in IntHexBytes, b4 \in IntHexBytes}
    \cup {HexHead(TYPE_LONG_HEX + ATTRIBUTE) \o v : v \in [1..8 -> LongHexBytes]}

HexStart ==
    /\ d_file \in HexFiles
    /\ d_new = [called |-> FALSE, ok |-> FALSE, err |-> NoError]
    /\ \E n \in ChunkSizes, collect \in BOOLEAN :
          dec = NotConstructed(SeekableReaderNew(InnerNew(ChunksOf(d_file, n))), collect)

HexInit == HexStart /\ ReaderIdle /\ InternIdle /\ PatchIdle /\ CliIdle

SpecHex == HexInit /\ [][DecodeNext]_vars

\* the big-endian bytes of the value of the attribute
HexValue == SubSeq(d_file, Len(HexHead(0)) + 1, Len(d_file))

\* what is written of the attribute up to the digits:  a="0x
HexOpening == <<32, 97, 61, 34, 48, 120>>

\* the text written for the attribute
AttributeText == Slice(dec.output, dec.h_attrs[1].text_from, dec.h_attrs[1].text_to)

\* the text between 0x and the closing quote
Rendered == Slice(AttributeText, Len(HexOpening), Len(AttributeText) - 1)

DigitValue(c) == IF c <= 57 THEN c - 48 ELSE c - 55

\* the bytes a text of hexadecimal digits stands for, read as a number of
\* width bytes
BytesOfHex(digits, width) ==
    Bind([i \in 1..(2 * width - Len(digits)) |-> 48] \o digits, LAMBDA padded :
        [i \in 1..width |->
            16 * DigitValue(padded[2 * i - 1]) + DigitValue(padded[2 * i])])

UpperHexDigits == (48..57) \cup (65..70)

\* C25: an INT_HEX or LONG_HEX attribute is rendered as 0x and the uppercase
\* hexadecimal digits, without leading zeros, of the value modulo 2^32 or
\* 2^64 (255 gives 0xFF, -1 gives 0xFFFFFFFF); no minus sign is written.
C25_HexRendering ==
    Len(dec.h_attrs) = 1 =>
       /\ IsPrefix(HexOpening, AttributeText)
       /\ AttributeText[Len(AttributeText)] = 34
       /\ Len(Rendered) \in 1..(2 * Len(HexValue))
       /\ \A i \in 1..Len(Rendered) : Rendered[i] \in UpperHexDigits
       /\ Len(Rendered) > 1 => Rendered[1] # 48
       /\ BytesOfHex(Rendered, Len(HexValue)) = HexValue
       /\ HexValue = <<0, 0, 0, 255>> => Rendered = <<70, 70>>
       /\ HexValue = <<255, 255, 255, 255>> => Rendered = <<70, 70, 70, 70, 70, 70, 70, 70>>
       /\ \A i \in 1..Len(AttributeText) : AttributeText[i] # 45

\* the INT_HEX attribute holding 10, decoded and rendered as 0xA
C25_Witness ==
    /\ d_file = HexHead(TYPE_INT_HEX + ATTRIBUTE) \o <<0, 0, 0, 10>>
    /\ Len(dec.h_attrs) = 1
    /\ AttributeText = HexOpening \o <<65, 34>>

(***************************************************************************)
(* One invocation of the patcher: main with a policy name, from the decode *)
(* of the profile to the printing of the file written.                     *)
(***************************************************************************)

\* bound of the patcher specification: the tokens of a profile
MaxPatchTokens == 3

PatchPieces ==
    { <<50>> \o Define(RESTRICTIONS_USER),     \* <restrictions_user, defined
      <<50>> \o Define(RESTRICTIONS),          \* <restrictions, defined
      <<50>> \o Ref(1),                        \* <(string 1)
      <<207>> \o Define(<<97>>),               \* a="true", a defined
      <<207>> \o Ref(2),                       \* (string 2)="true"
      <<51>> \o Ref(1),                        \* </(string 1)>
      <<51>> \o Ref(0),                        \* </(string 0)>
      <<17>> }                                 \* END_DOCUMENT

\* profiles of up to MaxPatchTokens tokens, and the same after the two tags
\* <restrictions_user><restrictions
PatchFiles ==
    {PROTOCOL_MAGIC_VERSION_0 \o head \o Flatten(ts) :
        head \in {<<>>, <<50>> \o Define(RESTRICTIONS_USER) \o <<50>> \o Define(RESTRICTIONS)},
        ts \in SeqsUpTo(PatchPieces, MaxPatchTokens)}

PatchTargets == { <<97>>, <<98>> }             \* "a", "b"

PatchStart ==
    /\ p_path \in PatchFiles
    /\ p_name \in PatchTargets
    /\ p_pc = "start"
    /\ p_de = DeserializerNew(SeekableReaderNew(InnerNew(<<>>)), <<>>, FALSE).de
    /\ p_names = <<>>
    /\ p_list = <<>>
    /\ p_i = 1
    /\ p_create = TRUE
    /\ p_out = NoFile
    /\ p_same \in BOOLEAN
    /\ p_ops = <<>>
    /\ p_xml = NotPrinted

PatchInit == PatchStart /\ ReaderIdle /\ DecodeIdle /\ InternIdle /\ CliIdle

\* main, lines 52-68: the decode with collection, the names, the filter
MainDecode ==
    /\ p_pc = "start"
    /\ \E first \in {DecodeFile(p_path, TRUE)}, names \in {get_policy_list(p_path)} :
          IF first.ok /\ names.ok
          THEN /\ p_de' = first.de
               /\ p_names' = names.list
               /\ p_list' = CleanedPolicyList(get_policies(first.de), names.list)
               /\ p_pc' = "loop"
          ELSE /\ p_pc' = "panicked"
               /\ UNCHANGED <<p_de, p_names, p_list>>
    /\ p_i' = 1
    /\ p_create' = TRUE
    /\ UNCHANGED <<p_path, p_name, p_out, p_same, p_ops, p_xml,
                   reader_vars, decode_vars, intern_vars, cli_vars>>

\* File::open(&user_profile_path) and read_to_end, made after the decode:
\* what the file holds then, which is what was written to out when out names
\* the same file
ProfileFile == IF p_same /\ p_out.exists THEN p_out.bytes ELSE p_path

\* main, lines 70-102: one pass of  for policy in &cleaned_policy_list; the
\* pass panics, before it writes, when the span ends past the buffer read
MainLoopPass ==
    /\ p_pc = "loop"
    /\ p_i <= Len(p_list)
    /\ IF p_list[p_i].name # p_name
       THEN /\ p_i' = p_i + 1
            /\ UNCHANGED <<p_pc, p_create, p_out, p_ops>>
       ELSE IF DrainPanics(ProfileFile, p_list[p_i].start_offset, p_list[p_i].end_offset)
       THEN /\ p_pc' = "panicked"
            /\ p_create' = NoteMatch(p_create)
            /\ UNCHANGED <<p_i, p_out, p_ops>>
       ELSE \E buffer \in {RemovePolicy(ProfileFile, p_list[p_i])} :
               /\ p_create' = NoteMatch(p_create)
               /\ p_out' = [exists |-> TRUE, bytes |-> buffer]
               /\ p_ops' = Append(p_ops, [kind |-> "remove",
                                          start |-> p_list[p_i].start_offset,
                                          end |-> p_list[p_i].end_offset,
                                          name |-> p_list[p_i].name,
                                          wrote |-> buffer])
               /\ p_i' = p_i + 1
               /\ UNCHANGED p_pc
    /\ UNCHANGED <<p_path, p_name, p_de, p_names, p_list, p_same, p_xml,
                   reader_vars, decode_vars, intern_vars, cli_vars>>

\* main, lines 104-129: after the loop
MainAfterLoop ==
    /\ p_pc = "loop"
    /\ p_i > Len(p_list)
    /\ IF p_create
       THEN \E buffer \in {InsertPolicy(ProfileFile, get_restriction_node_offset(p_de),
                                         p_name)} :
               /\ p_out' = [exists |-> TRUE, bytes |-> buffer]
               /\ p_ops' = Append(p_ops, [kind |-> "insert",
                                          start |-> get_restriction_node_offset(p_de),
                                          end |-> get_restriction_node_offset(p_de),
                                          name |-> p_name,
                                          wrote |-> buffer])
       ELSE UNCHANGED <<p_out, p_ops>>
    /\ p_pc' = "print"
    /\ UNCHANGED <<p_path, p_name, p_de, p_names, p_list, p_i, p_create, p_same, p_xml,
                   reader_vars, decode_vars, intern_vars, cli_vars>>

\* main, line 133: println!("{}", get_readable_xml(out))
MainPrint ==
    /\ p_pc = "print"
    /\ \E xml \in {IF p_out.exists THEN get_readable_xml(p_out.bytes) ELSE NotPrinted} :
          /\ p_xml' = xml
          /\ p_pc' = IF xml.ok THEN "done" ELSE "panicked"
    /\ UNCHANGED <<p_path, p_name, p_de, p_names, p_list, p_i, p_create, p_out, p_same,
                   p_ops,
                   reader_vars, decode_vars, intern_vars, cli_vars>>

PatchNext == MainDecode \/ MainLoopPass \/ MainAfterLoop \/ MainPrint

SpecPatch == PatchInit /\ [][PatchNext]_vars

\* the operations of the invocation, by kind
Removals == {k \in 1..Len(p_ops) : p_ops[k].kind = "remove"}

Insertions == {k \in 1..Len(p_ops) : p_ops[k].kind = "insert"}

\* the text of the decode of the profile with the characters [from, to) cut out
TextWithout(from, to) ==
    Slice(p_de.output, 0, from) \o Slice(p_de.output, to, Len(p_de.output))

\* the text of the decode of the profile with added put in at offset at
TextWith(at, added) ==
    Slice(p_de.output, 0, at) \o added \o Slice(p_de.output, at, Len(p_de.output))

\* the attribute of the decode of the profile whose token byte is at offset
AttributeAt(offset) ==
    p_de.h_attrs[CHOOSE j \in 1..Len(p_de.h_attrs) : p_de.h_attrs[j].token_pos = offset]

\* the start tag of the decode of the profile whose name ends at offset
TagEndingAt(offset) ==
    p_de.h_tags[CHOOSE j \in 1..Len(p_de.h_tags) : p_de.h_tags[j].after_name = offset]

\* C1: when the decode of the profile completes and records an insertion
\* offset O, the buffer an insertion writes decodes to the decode of the
\* profile with exactly one attribute more, name="true" on the restrictions
\* tag at O, every other name and value unchanged.
C1_InsertionTargetedPatch ==
    \A k \in Insertions :
        (p_de.warning = NoError /\ RestrictionTagsOf(p_de) # {})
        => get_readable_xml(p_ops[k].wrote) =
              [ok |-> TRUE,
               text |-> TextWith(TagEndingAt(p_ops[k].start).text_at,
                                 <<32>> \o p_ops[k].name \o <<61, 34, 116, 114, 117, 101, 34>>)]

\* C2: the buffer a removal of the record P writes decodes to the decode of
\* the profile with exactly the attribute of P absent and everything else
\* unchanged.
C2_RemovalTargetedPatch ==
    \A k \in Removals :
        get_readable_xml(p_ops[k].wrote) =
            [ok |-> TRUE,
             text |-> TextWithout(AttributeAt(p_ops[k].start).text_from,
                                  AttributeAt(p_ops[k].start).text_to)]

\* the loop over the records and the insertion after it are over
SelectionMade == p_pc \in {"print", "done"}

\* the collected records whose name is a known policy name and is the target
Matching ==
    {i \in 1..Len(p_de.policies) :
        /\ p_de.policies[i].name \in Range(p_names)
        /\ p_de.policies[i].name = p_name}

C8_RemovalBufferEffect ==
    \A k \in Removals :
        LET wrote == p_ops[k].wrote
            plain == Drain(p_path, p_ops[k].start, p_ops[k].end)
        IN /\ Len(wrote) = Len(p_path) - (p_ops[k].end - p_ops[k].start)
           /\ \A j \in 1..Len(wrote) : j # Len(wrote) - 4 => wrote[j] = plain[j]
           /\ Len(wrote) >= 5
           /\ wrote[Len(wrote) - 4] = (p_path[Len(p_path) - 4] + 255) % 256

\* C9: an insertion of a name of n bytes at offset O into a buffer of length
\* L writes a buffer of length L + 5 + n whose bytes [O, O + 5 + n) are 0xCF
\* 0xFF 0xFF, n as a big-endian 16-bit integer and the name; the other bytes
\* are the original's in order, but that the 5th byte from the end is the
\* original's 5th byte from the end plus 1 modulo 256.
C9_InsertionBufferEffect ==
    \A k \in Insertions :
        LET wrote == p_ops[k].wrote
            O == p_ops[k].start
            n == Len(p_ops[k].name)
            L == Len(p_path)
        IN /\ Len(wrote) = L + 5 + n
           /\ Slice(wrote, O, O + 5 + n) =
                 <<207, 255, 255, n \div 256, n % 256>> \o p_ops[k].name
           /\ \A j \in 1..O : j # Len(wrote) - 4 => wrote[j] = p_path[j]
           /\ \A j \in (O + 1)..L :
                 j + 5 + n # Len(wrote) - 4 => wrote[j + 5 + n] = p_path[j]
           /\ L >= 5 => wrote[Len(wrote) - 4] = (p_path[L - 4] + 1) % 256

\* C28: every buffer the patcher writes begins with the 4-byte signature and
\* is accepted by BinaryXmlDeserializer::new: no removal begins inside the
\* header and no insertion is made before offset 4, the invocations whose
\* decode recorded no insertion offset included.
C28_WrittenHeaderIntact ==
    \A k \in 1..Len(p_ops) :
       /\ p_ops[k].start >= Len(PROTOCOL_MAGIC_VERSION_0)
       /\ IsPrefix(PROTOCOL_MAGIC_VERSION_0, p_ops[k].wrote)
       /\ DeserializerNew(SeekableReaderNew(InnerNew(<<p_ops[k].wrote>>)), <<>>, FALSE).ok

\* the last of the collected records that match
LastMatching == CHOOSE i \in Matching : \A m \in Matching : m <= i

\* C29: when several filtered records have the target name, every removal
\* is made on a fresh copy of the original profile and out is written once
\* for each, so that every pass of the loop completes and out ends as the
\* original without the span of the last matching record, its counter byte
\* decremented by 1.
C29_LastMatchWins ==
    /\ \A k \in Removals :
          p_ops[k].wrote =
             RemovePolicy(p_path, Policy(p_ops[k].name, p_ops[k].start, p_ops[k].end))
    /\ p_pc = "panicked" => p_i > Len(p_list)
    /\ (SelectionMade /\ Cardinality(Matching) >= 2) =>
          /\ Cardinality(Removals) = Cardinality(Matching)
          /\ p_out.bytes = RemovePolicy(p_path, p_de.policies[LastMatching])

(***************************************************************************)
(* One invocation of abx2xml: run_with_matches on the arguments, with      *)
(* files at the paths and bytes on stdin.                                  *)
(***************************************************************************)

\* what a file or stdin can hold: a document, a header of another version,
\* a document cut short, nothing
CliContents ==
    {RootFile, <<65, 66, 88, 1>>, PROTOCOL_MAGIC_VERSION_0 \o <<50, 0, 0>>, <<>>}

CliStart ==
    /\ c_args \in [in_place : BOOLEAN, input : {"-"} \cup CliPaths,
                   output : {<<>>} \cup {<<path>> : path \in {"-"} \cup CliPaths}]
    /\ \E fs \in [CliPaths -> {Absent} \cup {Present(bytes) : bytes \in CliContents}],
          stdin \in CliContents :
          c_before = [fs |-> fs, stdin |-> stdin, stdout |-> <<>>, io |-> <<>>]
    /\ c_world = c_before
    /\ c_pc = "start"
    /\ c_result = [ok |-> TRUE, err |-> NoError]

CliInit == CliStart /\ ReaderIdle /\ DecodeIdle /\ InternIdle /\ PatchIdle

\* Cli::run_with_matches(matches), to its return
RunWithMatches ==
    /\ c_pc = "start"
    /\ \E ran \in {run_with_matches(c_args, c_world)} :
          /\ c_result' = [ok |-> ran.ok, err |-> ran.err]
          /\ c_world' = ran.w
    /\ c_pc' = "done"
    /\ UNCHANGED <<c_args, c_before, reader_vars, decode_vars, intern_vars, patch_vars>>

CliNext == RunWithMatches

SpecCli == CliInit /\ [][CliNext]_vars

\* C18: with the in-place flag and "-" as the input path run_with_matches
\* returns ParseError("Cannot use -i option with stdin input") and has made
\* no operation on a file or a stream: the files, stdin and stdout are as
\* they were, whatever the output path.  No other arguments give this error.
C18_InPlaceWithStdin ==
    c_pc = "done"
    => /\ (c_args.in_place /\ c_args.input = "-")
          => /\ ~c_result.ok
             /\ c_result.err.kind = "ParseError"
             /\ c_result.err.what = "Cannot use -i option with stdin input"
             /\ c_world.io = <<>>
             /\ c_world = c_before
       /\ c_result.err.kind = "ParseError" => (c_args.in_place /\ c_args.input = "-")

\* -i - b, with a file at b and a document on stdin: refused, b as it was
C18_Witness ==
    /\ c_pc = "done"
    /\ c_args = [in_place |-> TRUE, input |-> "-", output |-> <<"b">>]
    /\ c_before.fs["b"] = Present(<<65, 66, 88, 1>>)
    /\ c_before.stdin = RootFile
    /\ c_result.err.kind = "ParseError"
    /\ c_world.fs["b"] = Present(<<65, 66, 88, 1>>)

====
